---- MODULE Spec2Model ----
(***************************************************************************)
(* Verification model of the Keboola Storage Daemon (kbc_storage_daemon).  *)
(*                                                                         *)
(* Several specifications share this module:                                *)
(*   Spec         StorageEventHandler (watcher.py): filesystem events      *)
(*                delivered by several dispatch threads, the _processing   *)
(*                guard and the created/modified pipelines.                *)
(*   SpecRetry    with_retries (utils.py): one decorated call under a      *)
(*                retry policy and a failure plan.                         *)
(*   SpecGateway  StorageClient (storage_client.py): one gateway           *)
(*                operation, i.e. a method decorated with with_retries     *)
(*                whose body calls the remote API through                  *)
(*                self.retry_decorator.                                    *)
(*   SpecDaemon   FileHandler (daemon.py): modification events matched     *)
(*                against the configured mappings.                         *)
(*   SpecFullLoad FullLoadHandler (sync_handlers.py): a sequence of        *)
(*                handle_created / handle_modified calls.                  *)
(*   SpecIncremental  IncrementalHandler (sync_handlers.py): concurrent    *)
(*                invocations, one path per worker, on files that grow.    *)
(*   SpecPrepare  StorageEventHandler (watcher.py) and compress_file       *)
(*                (utils.py): the compression gate in front of the         *)
(*                create_table / load_table call of one event at a time.   *)
(*   SpecStreaming  StreamingHandler (sync_handlers.py): a sequence of     *)
(*                handle_created / handle_modified calls on one file.      *)
(*   SpecStartup  the three ways the daemon is started (config.py,         *)
(*                main.py, daemon.py) and the events handled afterwards.   *)
(*   SpecObserver, SpecObserverLive  DirectoryWatcher (watcher.py): the    *)
(*                observer thread that dispatches queued events one after  *)
(*                another, and stop(); the second adds weak fairness.      *)
(*   SpecConfig   Config (config.py): get_mapping_for_file on a list of    *)
(*                mappings.                                                *)
(* Every specification leaves the variables of the others untouched.       *)
(***************************************************************************)
EXTENDS Integers, Sequences, FiniteSets, TLC

(* ------------------------------------------------------------------------ *)
(* Bounds of the model                                                      *)
(* ------------------------------------------------------------------------ *)

\* number of threads that deliver events to one StorageEventHandler
NumThreads == 2

Threads == 1..NumThreads

\* largest max_attempts / max_retries of a retry policy
MaxAttempts == 3

\* largest initial_delay and max_delay of a retry policy, in seconds
MaxDelay == 3

\* largest backoff_factor of a retry policy
MaxFactor == 2

(* ------------------------------------------------------------------------ *)
(* Paths seen by the watcher, relative to the directory "watched_directory" *)
(* ------------------------------------------------------------------------ *)

\* regular files the events are about
FilePaths == {"shop/sales.csv", "shop/orders.csv", "shop/sub/deep.csv",
              "shop/notes.txt", "___/x.csv"}

\* directories the events are about
DirPaths == {"shop", "shop/sub", "___"}

\* file_path.parent.parent.name != "watched_directory"  (watcher.py:234, 387)
IsNestedFile(p) == p \in {"shop/sub/deep.csv"}

\* file_path.suffix.lower() != '.csv'  (watcher.py:242, 395)
IsCsv(p) == p \in {"shop/sales.csv", "shop/orders.csv", "shop/sub/deep.csv", "___/x.csv"}

\* dir_path.parent.name != "watched_directory"  (watcher.py:170)
IsNestedDir(p) == p \in {"shop/sub"}

\* _get_bucket_info: the directory name sanitised to the bucket name; a name
\* made of separators only sanitises to the empty string (watcher.py:156-157)
BucketNameEmpty(p) == p \in {"___/x.csv", "___"}

\* A temp file is named by the thread whose invocation created it; mkstemp
\* never hands out a name twice, so the temp files that earlier invocations
\* left behind are distinct from every new one and are kept as one name.
Leaked == NumThreads + 1

NoEvent == [kind |-> "none", path |-> "none", is_directory |-> FALSE]

Events ==
    [kind : {"created", "modified"}, path : FilePaths, is_directory : {FALSE}]
    \cup [kind : {"created", "modified"}, path : DirPaths, is_directory : {TRUE}]

VARIABLES
    \* ---- StorageEventHandler (watcher.py) ----
    processing,   \* self._processing: the paths inside a pipeline
    tempFiles,    \* self._temp_files: the registered temp files
    tempOnDisk,   \* the temp files that exist on disk
    pc,           \* position of each dispatch thread
    ev,           \* the event each thread is delivering
    held,         \* how many invocations of the thread hold the guard of ev.path
    nested,       \* the thread is inside the _handle_file_created called by _handle_file_modified
    exc,          \* the exception in flight in the thread
    upload,       \* what the thread hands to create_table/load_table
    calls,        \* gateway operations the thread invoked for the event it is delivering
    result,       \* how the handling of that event ends ("none" between events)
    escaped,      \* threads whose exception left on_created/on_modified
    \* ---- with_retries (utils.py): one call of a decorated operation ----
    rPolicy,      \* the decorator's arguments
    rFrame,       \* the wrapper's locals and what it logged and slept so far
    rCalls,       \* how many times the wrapped operation was invoked
    rFailed,      \* how many of these invocations raised
    rOutcome,     \* what the wrapper did: still running, returned, raised
    \* ---- StorageClient (storage_client.py): one call of a gateway method ----
    gOp,          \* the method called
    gPolicy,      \* the policy StorageClient was constructed with
    gPc,          \* where the call is: decorator, retry_decorator, direct, done
    gOuter,       \* frame of the wrapper of @with_retries(logger=logger)
    gInner,       \* frame of the wrapper of self.retry_decorator(...)
    gApiCalls,    \* calls made to the remote API (kbcstorage) by this call
    gOutcome,     \* what the method did: running, returned, raised
    \* ---- FileHandler (daemon.py) and sync_file (sync.py) ----
    dMappings,    \* self.mappings: the mappings of the configuration, in order
    dNow,         \* time.time(), in seconds
    dLastSyncs,   \* self.last_syncs: path -> time of the last accepted event
    dPc,          \* position of the observer thread inside on_modified
    dEvent,       \* the event being delivered
    dIdx,         \* index of the mapping the loop of on_modified is at
    dTableExists, \* sync_file's local table_exists
    dSyncs,       \* what was done for the event being delivered, and for which mapping
    \* ---- FullLoadHandler (sync_handlers.py) ----
    fFile,        \* the content of the file, named by its version
    fCreated,     \* handle_created calls made so far
    fModified,    \* handle_modified calls made so far
    fCalls,       \* the gateway calls the handler issued, in order
    \* ---- IncrementalHandler (sync_handlers.py) ----
    iFile,        \* number of lines of each worker's file (the header is line 1)
    iWatermark,   \* self._processed_lines, 0 for a path that is not in it
    iTempFiles,   \* self._temp_files
    iOnDisk,      \* the temp files that exist
    iPc,          \* position of each worker
    iMethod,      \* the method the worker is in
    iLocals,      \* total_lines and the last line read into new_lines
    iCall,        \* the gateway call of the invocation
    iExc,         \* the exception in flight
    iDirty,       \* self._temp_files grew while the worker iterates over it
    iTodo,        \* what the worker's iteration over self._temp_files has left
    iEntry,       \* the watermark when the invocation began
    iQuiet        \* the worker's previous invocation was a handle_modified that
                  \* returned normally, and the file is as it was at that return

VARIABLES
    pThreshold,   \* self.compression_threshold, in bytes
    pSize,        \* the size of the event's file on disk, in bytes
    pPc,          \* where the handler is in preparing the upload
    pMode,        \* "created" or "modified": which handler prepares
    pLocals,      \* what the stat calls saw, how gzip ended, upload_path and
                  \* is_compressed
    pCalls        \* the create_table/load_table calls made, in order

VARIABLES
    sLen,         \* how many lines the streamed file has
    sOptions,     \* the options argument of the invocation
    sBatchSize,   \* self._batch_sizes[file_key]; 0 when the key is absent
    sStored,      \* self._current_batches[file_key]
    sPc,          \* where the invocation is
    sMethod,      \* handle_created or handle_modified
    sLocals,      \* next line to read, current_batch, and whether current_batch
                  \* is the list object stored in self._current_batches
    sPosts,       \* the POSTs of the invocation, in order, with their outcome
    sExc,         \* the exception in flight
    sFailures     \* how many POSTs failed so far

VARIABLES
    uConfig,      \* the mapping found in config.json
    uEntry,       \* which start-up code runs
    uPc,          \* starting, watching, or failed
    uError,       \* what start-up raised
    uEvents       \* how many events were handled since start-up

VARIABLES
    oPaths,       \* the path of every event detected so far, in order
    oQueue,       \* the observer's event queue: detected, not yet dispatched
    oPc,          \* where the observer's thread is
    oCurrent,     \* the event the thread is dispatching (0: none)
    oStuck,       \* the remote call under way never returns
    oHandled,     \* the events whose pipeline ran to its end
    oStop         \* stop(): not called, waiting in join(), or returned

VARIABLES
    cMappings,    \* Config._mappings: the FileMapping objects, in order
    cPath,        \* the file_path last handed to get_mapping_for_file
    cResult       \* what that call returned: a position in the list, 0 for None

wvars == <<processing, tempFiles, tempOnDisk, pc, ev, held, nested, exc, upload,
           calls, result, escaped>>

rvars == <<rPolicy, rFrame, rCalls, rFailed, rOutcome>>
gvars == <<gOp, gPolicy, gPc, gOuter, gInner, gApiCalls, gOutcome>>
dvars == <<dMappings, dNow, dLastSyncs, dPc, dEvent, dIdx, dTableExists, dSyncs>>
fvars == <<fFile, fCreated, fModified, fCalls>>
ivars == <<iFile, iWatermark, iTempFiles, iOnDisk, iPc, iMethod, iLocals, iCall,
           iExc, iDirty, iTodo, iEntry, iQuiet>>

pvars == <<pThreshold, pSize, pPc, pMode, pLocals, pCalls>>
uvars == <<uConfig, uEntry, uPc, uError, uEvents>>
ovars == <<oPaths, oQueue, oPc, oCurrent, oStuck, oHandled, oStop>>
cvars == <<cMappings, cPath, cResult>>
svars == <<sLen, sOptions, sBatchSize, sStored, sPc, sMethod, sLocals, sPosts,
           sExc, sFailures>>

vars == <<wvars, rvars, gvars, dvars, fvars, ivars, pvars, svars, uvars, ovars, cvars>>

\* what the actions of one component leave alone
notWatcher == <<rvars, gvars, dvars, fvars, ivars, pvars, svars, uvars, ovars, cvars>>
notRetry == <<wvars, gvars, dvars, fvars, ivars, pvars, svars, uvars, ovars, cvars>>
notGateway == <<wvars, rvars, dvars, fvars, ivars, pvars, svars, uvars, ovars, cvars>>
notDaemon == <<wvars, rvars, gvars, fvars, ivars, pvars, svars, uvars, ovars, cvars>>
notFullLoad == <<wvars, rvars, gvars, dvars, ivars, pvars, svars, uvars, ovars, cvars>>
notIncremental == <<wvars, rvars, gvars, dvars, fvars, pvars, svars, uvars, ovars, cvars>>
notPrepare == <<wvars, rvars, gvars, dvars, fvars, ivars, svars, uvars, ovars, cvars>>
notStreaming == <<wvars, rvars, gvars, dvars, fvars, ivars, pvars, uvars, ovars, cvars>>
notStartup == <<wvars, rvars, gvars, dvars, fvars, ivars, pvars, svars, ovars, cvars>>
notObserver == <<wvars, rvars, gvars, dvars, fvars, ivars, pvars, svars, uvars, cvars>>
notConfig == <<wvars, rvars, gvars, dvars, fvars, ivars, pvars, svars, uvars, ovars>>

(* ------------------------------------------------------------------------ *)
(* StorageEventHandler: the concurrency guard                               *)
(* ------------------------------------------------------------------------ *)

\* _add_to_processing without the membership test
AddToProcessing_NoCheck(S, p) == [added |-> TRUE, set |-> S \cup {p}]

\* _add_to_processing: under the lock, refuse a path already in the set
AddToProcessing(S, p) ==
    IF p \in S THEN [added |-> FALSE, set |-> S]
               ELSE [added |-> TRUE, set |-> S \cup {p}]

\* _remove_from_processing that forgets the entry
RemoveFromProcessing_Noop(S, p) == S

\* _remove_from_processing: set.discard under the lock
RemoveFromProcessing(S, p) == S \ {p}

(* ------------------------------------------------------------------------ *)
(* Gateway calls as the watcher makes them                                  *)
(* ------------------------------------------------------------------------ *)

\* The watcher passes bucket_id=/table_id= keywords to create_bucket,
\* create_table and load_table, whose parameters are bucket_name/table_name:
\* Python raises TypeError when the wrapper calls the method.  bucket_exists and
\* table_exists are called positionally and reach the remote store.
KeywordMismatch(op) == op \in {"create_bucket", "create_table", "load_table"}

\* what a gateway call made by the watcher can end with
GatewayOutcomes(op) ==
    IF KeywordMismatch(op) THEN {"TypeError"} ELSE {"ok", "StorageError"}

\* the pipeline the thread is in: the nested call runs the creation pipeline
Mode(t) == IF nested[t] THEN "created" ELSE ev[t].kind

\* the thread moves on inside the pipeline, after the gateway calls ops
Forward(t, to, ops) ==
    /\ pc' = [pc EXCEPT ![t] = to]
    /\ calls' = [calls EXCEPT ![t] = @ \o ops]
    /\ UNCHANGED <<exc, result>>

\* the thread leaves the pipeline for its except clause, its finally clause or
\* its caller, with exception e in flight ("none": a return) and outcome r
Leave(t, to, e, r) ==
    /\ pc' = [pc EXCEPT ![t] = to]
    /\ exc' = [exc EXCEPT ![t] = e]
    /\ result' = [result EXCEPT ![t] = r]
    /\ calls' = [calls EXCEPT ![t] = <<>>]

(* ------------------------------------------------------------------------ *)
(* with_retries (utils.py)                                                  *)
(* ------------------------------------------------------------------------ *)

Min(a, b) == IF a <= b THEN a ELSE b

\* the defaults of with_retries' parameters
DefaultMaxAttempts == 3
DefaultInitialDelay == 1
DefaultMaxDelay == 30
DefaultBackoffFactor == 2

DefaultPolicy ==
    [max_attempts |-> DefaultMaxAttempts, initial_delay |-> DefaultInitialDelay,
     max_delay |-> DefaultMaxDelay, backoff_factor |-> DefaultBackoffFactor,
     logger |-> TRUE]

\* The retry policies of the model.  Delays are whole seconds.  The settings
\* are read with int()/float() and not validated, so max_attempts may be 0 and
\* initial_delay may exceed max_delay.  Every caller in the repository passes
\* a logger.
Policies ==
    [max_attempts : 0..MaxAttempts, initial_delay : 0..MaxDelay,
     max_delay : 0..MaxDelay, backoff_factor : 0..MaxFactor, logger : {TRUE}]

\* wrapper: delay = initial_delay; last_exception = None (0)
RetryStart(p) ==
    [attempt |-> 0, delay |-> p.initial_delay, last_exception |-> 0,
     warnings |-> 0, errors |-> 0, sleeps |-> <<>>]

\* for attempt in range(max_attempts): the loop has a further iteration
HasAttempt(f, p) == f.attempt < p.max_attempts

\* a warning that is never written
LogWarning_Silent(w, p) == w

\* if logger: logger.warning(...)
LogWarning(w, p) == IF p.logger THEN w + 1 ELSE w

\* if attempt < max_attempts - 1
ShouldSleep(f, p) == f.attempt < p.max_attempts - 1

\* a backoff without its ceiling
NextDelay_NoCap(d, p) == d * p.backoff_factor

\* delay = min(delay * backoff_factor, max_delay)
NextDelay(d, p) == Min(d * p.backoff_factor, p.max_delay)

\* the except clause of the loop body, for exception e, and the step of the
\* loop to its next iteration
OnFailure(f, p, e) ==
    [attempt |-> f.attempt + 1,
     delay |-> IF ShouldSleep(f, p) THEN NextDelay(f.delay, p) ELSE f.delay,
     last_exception |-> e,
     warnings |-> LogWarning(f.warnings, p),
     errors |-> f.errors,
     sleeps |-> IF ShouldSleep(f, p) THEN Append(f.sleeps, f.delay) ELSE f.sleeps]

\* after the loop: logger.error(...) and raise last_exception; raising None is
\* Python's TypeError
RaiseOfNone == -1

OnExhausted(f, p) ==
    [frame |-> [f EXCEPT !.errors = IF p.logger THEN @ + 1 ELSE @],
     raised |-> IF f.last_exception = 0 THEN RaiseOfNone ELSE f.last_exception]

Running == [kind |-> "running", value |-> 0]

(* ------------------------------------------------------------------------ *)
(* Init                                                                     *)
(* ------------------------------------------------------------------------ *)

WatcherInit ==
    /\ processing = {}
    /\ tempFiles = {}
    /\ tempOnDisk = {}
    /\ pc = [t \in Threads |-> "idle"]
    /\ ev = [t \in Threads |-> NoEvent]
    /\ held = [t \in Threads |-> 0]
    /\ nested = [t \in Threads |-> FALSE]
    /\ exc = [t \in Threads |-> "none"]
    /\ upload = [t \in Threads |-> "none"]
    /\ calls = [t \in Threads |-> <<>>]
    /\ result = [t \in Threads |-> "none"]
    /\ escaped = {}

\* no decorated call is under way
RetryIdle ==
    /\ rPolicy = DefaultPolicy
    /\ rFrame = RetryStart(DefaultPolicy)
    /\ rCalls = 0
    /\ rFailed = 0
    /\ rOutcome = Running

\* no gateway method is being called
GatewayIdle ==
    /\ gOp = "none"
    /\ gPolicy = DefaultPolicy
    /\ gPc = "done"
    /\ gOuter = RetryStart(DefaultPolicy)
    /\ gInner = RetryStart(DefaultPolicy)
    /\ gApiCalls = 0
    /\ gOutcome = "none"

\* FileHandler is between two events
NoFileEvent == [type |-> "none", src_path |-> "none"]

\* no FileHandler exists
DaemonIdle ==
    /\ dMappings = <<>>
    /\ dNow = 0
    /\ dLastSyncs = <<>>
    /\ dPc = "idle"
    /\ dEvent = NoFileEvent
    /\ dIdx = 0
    /\ dTableExists = FALSE
    /\ dSyncs = {}

\* no FullLoadHandler exists
FullLoadIdle ==
    /\ fFile = 0
    /\ fCreated = 0
    /\ fModified = 0
    /\ fCalls = <<>>

\* no IncrementalHandler exists
IncrementalIdle ==
    /\ iFile = <<>>
    /\ iWatermark = <<>>
    /\ iTempFiles = {}
    /\ iOnDisk = {}
    /\ iPc = <<>>
    /\ iMethod = <<>>
    /\ iLocals = <<>>
    /\ iCall = <<>>
    /\ iExc = <<>>
    /\ iDirty = <<>>
    /\ iTodo = <<>>
    /\ iEntry = <<>>
    /\ iQuiet = <<>>

\* no file is being prepared for upload
PrepareIdle ==
    /\ pThreshold = 0
    /\ pSize = 0
    /\ pPc = "none"
    /\ pMode = "none"
    /\ pLocals = <<>>
    /\ pCalls = <<>>

\* no StreamingHandler exists
StreamingIdle ==
    /\ sLen = 0
    /\ sOptions = <<>>
    /\ sBatchSize = 0
    /\ sStored = <<>>
    /\ sPc = "none"
    /\ sMethod = "none"
    /\ sLocals = <<>>
    /\ sPosts = <<>>
    /\ sExc = "none"
    /\ sFailures = 0

\* no daemon is being started
StartupIdle ==
    /\ uConfig = <<>>
    /\ uEntry = "none"
    /\ uPc = "none"
    /\ uError = "none"
    /\ uEvents = 0

\* no DirectoryWatcher exists
ObserverIdle ==
    /\ oPaths = <<>>
    /\ oQueue = <<>>
    /\ oPc = "none"
    /\ oCurrent = 0
    /\ oStuck = FALSE
    /\ oHandled = {}
    /\ oStop = "none"

\* no Config exists
ConfigIdle ==
    /\ cMappings = <<>>
    /\ cPath = "none"
    /\ cResult = 0

\* no sync handler of sync_handlers.py exists, no upload is prepared, no
\* daemon is started, no directory is watched and no Config is built
HandlersIdle == FullLoadIdle /\ IncrementalIdle /\ PrepareIdle /\ StreamingIdle /\ StartupIdle /\ ObserverIdle /\ ConfigIdle

Init == WatcherInit /\ RetryIdle /\ GatewayIdle /\ DaemonIdle /\ HandlersIdle

(* ------------------------------------------------------------------------ *)
(* StorageEventHandler: actions                                             *)
(* ------------------------------------------------------------------------ *)

\* the observer hands an event to on_created / on_modified; on_modified does
\* nothing for a directory
Dispatch(t) ==
    /\ pc[t] = "idle"
    /\ \E e \in Events :
        IF e.kind = "modified" /\ e.is_directory
        THEN /\ pc' = [pc EXCEPT ![t] = "return"]
             /\ result' = [result EXCEPT ![t] = "ignored"]
             /\ UNCHANGED ev
        ELSE /\ pc' = [pc EXCEPT ![t] = IF e.is_directory THEN "dir_created" ELSE "enter"]
             /\ result' = [result EXCEPT ![t] = "running"]
             /\ ev' = [ev EXCEPT ![t] = e]
    /\ UNCHANGED <<processing, tempFiles, tempOnDisk, held, nested, exc, upload, calls,
                   escaped>>
    /\ UNCHANGED notWatcher

\* on_created for a directory: _handle_directory_created.  Only StorageError is
\* caught there; anything else goes up to on_created.
HandleDirectoryCreated(t) ==
    /\ pc[t] = "dir_created"
    /\ IF IsNestedDir(ev[t].path) \/ BucketNameEmpty(ev[t].path)
       THEN Leave(t, "return", "none", "ignored")
       ELSE \E o \in GatewayOutcomes("create_bucket") :
                 IF o = "ok" THEN Leave(t, "return", "none", "synced")
                 ELSE IF o = "StorageError" THEN Leave(t, "return", "none", "failed")
                 ELSE Leave(t, "return", o, "failed")
    /\ ev' = [ev EXCEPT ![t] = NoEvent]
    /\ UNCHANGED <<processing, tempFiles, tempOnDisk, held, nested, upload, escaped>>
    /\ UNCHANGED notWatcher

\* a handler that goes on into the pipeline when the guard refuses the path
HandlerEnter_IgnoreRefusal(t) ==
    /\ pc[t] \in {"enter", "nested_enter"}
    /\ LET r == AddToProcessing(processing, ev[t].path) IN
        /\ processing' = r.set
        /\ held' = [held EXCEPT ![t] = IF r.added THEN @ + 1 ELSE @]
        /\ nested' = [nested EXCEPT ![t] = (pc[t] = "nested_enter")]
        /\ Forward(t, "filter", <<>>)
        /\ UNCHANGED ev
    /\ UNCHANGED <<tempFiles, tempOnDisk, upload, escaped>>
    /\ UNCHANGED notWatcher

\* _handle_file_created / _handle_file_modified, first statement:
\*     if not self._add_to_processing(event.src_path): return
\* "enter" is the call made by on_created/on_modified, "nested_enter" the call
\* of _handle_file_created made by _handle_file_modified (watcher.py:470), which
\* returns into that handler's own return statement.
HandlerEnter(t) ==
    /\ pc[t] \in {"enter", "nested_enter"}
    /\ LET r == AddToProcessing(processing, ev[t].path) IN
        /\ processing' = r.set
        /\ IF r.added
           THEN /\ held' = [held EXCEPT ![t] = @ + 1]
                /\ nested' = [nested EXCEPT ![t] = (pc[t] = "nested_enter")]
                /\ Forward(t, "filter", <<>>)
                /\ UNCHANGED ev
           ELSE /\ IF pc[t] = "nested_enter"
                   THEN /\ Leave(t, "finally", "none", "table_missing")
                        /\ UNCHANGED ev
                   ELSE /\ Leave(t, "return", "none", "dropped")
                        /\ ev' = [ev EXCEPT ![t] = NoEvent]
                /\ UNCHANGED <<held, nested>>
    /\ UNCHANGED <<tempFiles, tempOnDisk, upload, escaped>>
    /\ UNCHANGED notWatcher

\* the nested-directory and non-CSV filters
Filter(t) ==
    /\ pc[t] = "filter"
    /\ IF IsNestedFile(ev[t].path) \/ ~IsCsv(ev[t].path)
       THEN Leave(t, "finally", "none", "ignored")
       ELSE Forward(t, "bucket_exists", <<>>)
    /\ UNCHANGED <<processing, tempFiles, tempOnDisk, ev, held, nested, upload, escaped>>
    /\ UNCHANGED notWatcher

\* self.storage.bucket_exists(bucket_id) inside try/except StorageError
BucketExists(t) ==
    /\ pc[t] = "bucket_exists"
    /\ \E o \in GatewayOutcomes("bucket_exists") :
         IF o = "ok"
         THEN \E exists \in BOOLEAN :
                 Forward(t, IF exists THEN "names" ELSE "create_bucket", <<"bucket_exists">>)
         ELSE IF o = "StorageError" THEN Leave(t, "finally", "none", "failed")
         ELSE Leave(t, "except", o, "failed")
    /\ UNCHANGED <<processing, tempFiles, tempOnDisk, ev, held, nested, upload, escaped>>
    /\ UNCHANGED notWatcher

\* self.storage.create_bucket(bucket_id=..., bucket_name=...) in the same try
CreateBucket(t) ==
    /\ pc[t] = "create_bucket"
    /\ \E o \in GatewayOutcomes("create_bucket") :
         IF o = "ok" THEN Forward(t, "names", <<"create_bucket">>)
         ELSE IF o = "StorageError" THEN Leave(t, "finally", "none", "failed")
         ELSE Leave(t, "except", o, "failed")
    /\ UNCHANGED <<processing, tempFiles, tempOnDisk, ev, held, nested, upload, escaped>>
    /\ UNCHANGED notWatcher

\* the name check, then the 'CSV file created/modified' log record, whose
\* file_path.stat() raises when the file is gone
Names(t) ==
    /\ pc[t] = "names"
    /\ IF BucketNameEmpty(ev[t].path)
       THEN Leave(t, "finally", "none", "failed")
       ELSE \E gone \in BOOLEAN :
               IF gone THEN Leave(t, "except", "OSError", "failed")
                       ELSE Forward(t, "ready", <<>>)
    /\ UNCHANGED <<processing, tempFiles, tempOnDisk, ev, held, nested, upload, escaped>>
    /\ UNCHANGED notWatcher

\* _is_file_ready: open(file_path, 'rb+') succeeds or not
IsFileReady(t) ==
    /\ pc[t] = "ready"
    /\ \E ready \in BOOLEAN :
         IF ready
         THEN Forward(t, IF Mode(t) = "modified" THEN "table_exists" ELSE "compress", <<>>)
         ELSE Leave(t, "finally", "none", "not_ready")
    /\ UNCHANGED <<processing, tempFiles, tempOnDisk, ev, held, nested, upload, escaped>>
    /\ UNCHANGED notWatcher

\* _handle_file_modified: self.storage.table_exists(bucket_id, table_id), and
\* self._handle_file_created(event) when the table is missing
TableExists(t) ==
    /\ pc[t] = "table_exists"
    /\ \E o \in GatewayOutcomes("table_exists") :
         IF o = "ok"
         THEN \E exists \in BOOLEAN :
                 Forward(t, IF exists THEN "compress" ELSE "nested_enter", <<"table_exists">>)
         ELSE Leave(t, "except", o, "failed")
    /\ UNCHANGED <<processing, tempFiles, tempOnDisk, ev, held, nested, upload, escaped>>
    /\ UNCHANGED notWatcher

\* the compression gate: over the threshold, compress_file makes a temp copy
\* that is registered in _temp_files; a failure of compress_file is logged and
\* the original file is uploaded.  compress_file that raises after its mkstemp
\* (reading the file or writing the gzip copy fails) leaves the file it made
\* on disk: nothing registers or removes it.
Compress(t) ==
    /\ pc[t] = "compress"
    /\ \E gone \in BOOLEAN, big \in BOOLEAN, compressed \in BOOLEAN, made \in BOOLEAN :
         IF gone
         THEN /\ Leave(t, "except", "OSError", "failed")
              /\ UNCHANGED <<tempFiles, tempOnDisk, upload>>
         ELSE IF big /\ compressed
         THEN /\ Forward(t, "upload", <<>>)
              /\ tempFiles' = tempFiles \cup {t}
              /\ tempOnDisk' = tempOnDisk \cup {t}
              /\ upload' = [upload EXCEPT ![t] = "compressed"]
         ELSE /\ Forward(t, "upload", <<>>)
              /\ upload' = [upload EXCEPT ![t] = "original"]
              /\ tempOnDisk' = IF big /\ made THEN tempOnDisk \cup {Leaked}
                                              ELSE tempOnDisk
              /\ UNCHANGED tempFiles
    /\ UNCHANGED <<processing, ev, held, nested, escaped>>
    /\ UNCHANGED notWatcher

\* create_table (creation pipeline) or load_table (modification pipeline) and
\* the inner finally that removes the temp copy: os.remove, then
\* _temp_files.remove; a failing os.remove is logged and leaves both
Upload(t) ==
    /\ pc[t] = "upload"
    /\ \E o \in GatewayOutcomes(IF Mode(t) = "created" THEN "create_table" ELSE "load_table") :
         IF o = "ok" THEN Leave(t, "finally", "none", "synced")
                     ELSE Leave(t, "except", o, "failed")
    /\ IF upload[t] = "compressed"
       THEN \E removed \in BOOLEAN :
              IF removed
              THEN /\ tempOnDisk' = tempOnDisk \ {t}
                   /\ tempFiles' = tempFiles \ {t}
              ELSE /\ tempOnDisk' = (tempOnDisk \ {t}) \cup {Leaked}
                   /\ tempFiles' = (tempFiles \ {t}) \cup {Leaked}
       ELSE UNCHANGED <<tempFiles, tempOnDisk>>
    /\ upload' = [upload EXCEPT ![t] = "none"]
    /\ UNCHANGED <<processing, ev, held, nested, escaped>>
    /\ UNCHANGED notWatcher

\* except Exception as e: self.logger.error(...)
HandlerExcept(t) ==
    /\ pc[t] = "except"
    /\ Leave(t, "finally", "none", "failed")
    /\ UNCHANGED <<processing, tempFiles, tempOnDisk, ev, held, nested, upload, escaped>>
    /\ UNCHANGED notWatcher

\* finally: self._remove_from_processing(event.src_path).  The nested
\* _handle_file_created returns into _handle_file_modified's return statement,
\* whose own finally runs next.
HandlerFinally(t) ==
    /\ pc[t] = "finally"
    /\ processing' = RemoveFromProcessing(processing, ev[t].path)
    /\ held' = [held EXCEPT ![t] = IF @ > 0 THEN @ - 1 ELSE 0]
    /\ nested' = [nested EXCEPT ![t] = FALSE]
    /\ pc' = [pc EXCEPT ![t] = IF nested[t] THEN "finally" ELSE "return"]
    /\ ev' = [ev EXCEPT ![t] = IF nested[t] THEN @ ELSE NoEvent]
    /\ UNCHANGED <<tempFiles, tempOnDisk, exc, upload, calls, result, escaped>>
    /\ UNCHANGED notWatcher

\* a dispatcher without its except clause
DispatcherReturn_NoCatch(t) ==
    /\ pc[t] = "return"
    /\ escaped' = IF exc[t] # "none" THEN escaped \cup {t} ELSE escaped
    /\ Leave(t, "idle", "none", "none")
    /\ UNCHANGED <<processing, tempFiles, tempOnDisk, ev, held, nested, upload>>
    /\ UNCHANGED notWatcher

\* on_created / on_modified: the handler has returned or raised; except Exception
\* logs what was raised and the dispatcher returns to the observer
DispatcherReturn(t) ==
    /\ pc[t] = "return"
    /\ Leave(t, "idle", "none", "none")
    /\ UNCHANGED <<processing, tempFiles, tempOnDisk, ev, held, nested, upload, escaped>>
    /\ UNCHANGED notWatcher
WatcherNext ==
    \E t \in Threads :
        \/ Dispatch(t)
        \/ HandleDirectoryCreated(t)
        \/ HandlerEnter(t)
        \/ Filter(t)
        \/ BucketExists(t)
        \/ CreateBucket(t)
        \/ Names(t)
        \/ IsFileReady(t)
        \/ TableExists(t)
        \/ Compress(t)
        \/ Upload(t)
        \/ HandlerExcept(t)
        \/ HandlerFinally(t)
        \/ DispatcherReturn(t)

Next == WatcherNext

Spec == Init /\ [][Next]_vars

(* ------------------------------------------------------------------------ *)
(* SpecRetry: one call of an operation decorated by with_retries            *)
(* ------------------------------------------------------------------------ *)

RetryInit ==
    /\ rPolicy \in Policies
    /\ rFrame = RetryStart(rPolicy)
    /\ rCalls = 0
    /\ rFailed = 0
    /\ rOutcome = Running
    /\ WatcherInit /\ GatewayIdle /\ DaemonIdle /\ HandlersIdle

\* return func(*args, **kwargs): the operation returns its value, named by
\* the invocation that produced it
RetryCallReturns ==
    /\ rOutcome.kind = "running"
    /\ HasAttempt(rFrame, rPolicy)
    /\ rCalls' = rCalls + 1
    /\ rOutcome' = [kind |-> "returned", value |-> rCalls + 1]
    /\ UNCHANGED <<rPolicy, rFrame, rFailed>>
    /\ UNCHANGED notRetry

\* the operation raises; its exception is named by the invocation that raised it
RetryCallRaises ==
    /\ rOutcome.kind = "running"
    /\ HasAttempt(rFrame, rPolicy)
    /\ rCalls' = rCalls + 1
    /\ rFailed' = rFailed + 1
    /\ rFrame' = OnFailure(rFrame, rPolicy, rCalls + 1)
    /\ UNCHANGED <<rPolicy, rOutcome>>
    /\ UNCHANGED notRetry

\* the loop is over: raise last_exception
RetryExhausted ==
    /\ rOutcome.kind = "running"
    /\ ~HasAttempt(rFrame, rPolicy)
    /\ rFrame' = OnExhausted(rFrame, rPolicy).frame
    /\ rOutcome' = [kind |-> "raised", value |-> OnExhausted(rFrame, rPolicy).raised]
    /\ UNCHANGED <<rPolicy, rCalls, rFailed>>
    /\ UNCHANGED notRetry
RetryNext ==
    \/ RetryCallReturns
    \/ RetryCallRaises
    \/ RetryExhausted

SpecRetry == RetryInit /\ [][RetryNext]_vars

(* ------------------------------------------------------------------------ *)
(* Claims about StorageEventHandler, checked under Spec                     *)
(* ------------------------------------------------------------------------ *)
(* StorageClient: one call of a gateway method                              *)
(* ------------------------------------------------------------------------ *)

\* Methods whose body is self.retry_decorator(self.tables.X)(...): the remote
\* call itself runs under the configured policy.
TableOps == {"table_exists", "create_table", "load_table", "get_table"}

\* Methods whose body is self._buckets.X(...): the _buckets property runs the
\* accessor self.client.buckets under the configured policy, and the remote
\* call X is then made directly.
BucketOps == {"bucket_exists", "get_bucket"}

GatewayOps == TableOps \cup BucketOps

\* a client built with some configured policy receives one call of a method
GatewayInit ==
    /\ gOp \in GatewayOps
    /\ gPolicy \in Policies
    /\ gPc = "decorator"
    /\ gOuter = RetryStart(DefaultPolicy)
    /\ gInner = RetryStart(gPolicy)
    /\ gApiCalls = 0
    /\ gOutcome = "running"
    /\ WatcherInit /\ RetryIdle /\ DaemonIdle /\ HandlersIdle

\* the wrapper of @with_retries(logger=logger), which has the default policy,
\* starts an attempt: the method body runs and enters self.retry_decorator(...)
GatewayAttempt ==
    /\ gPc = "decorator"
    /\ HasAttempt(gOuter, DefaultPolicy)
    /\ gInner' = RetryStart(gPolicy)
    /\ gPc' = "retry_decorator"
    /\ UNCHANGED <<gOp, gPolicy, gOuter, gApiCalls, gOutcome>>
    /\ UNCHANGED notGateway

\* self.retry_decorator(self.tables.X)(...): the remote call returns, and so
\* do the method and its decorator
GatewayRemoteReturns ==
    /\ gPc = "retry_decorator"
    /\ gOp \in TableOps
    /\ HasAttempt(gInner, gPolicy)
    /\ gApiCalls' = gApiCalls + 1
    /\ gPc' = "done"
    /\ gOutcome' = "returned"
    /\ UNCHANGED <<gOp, gPolicy, gOuter, gInner>>
    /\ UNCHANGED notGateway

\* self.retry_decorator(self.tables.X)(...): the remote call raises
GatewayRemoteRaises ==
    /\ gPc = "retry_decorator"
    /\ gOp \in TableOps
    /\ HasAttempt(gInner, gPolicy)
    /\ gApiCalls' = gApiCalls + 1
    /\ gInner' = OnFailure(gInner, gPolicy, gInner.attempt + 1)
    /\ UNCHANGED <<gOp, gPolicy, gPc, gOuter, gOutcome>>
    /\ UNCHANGED notGateway

\* self._buckets: the accessor returns the buckets API
GatewayAccessorReturns ==
    /\ gPc = "retry_decorator"
    /\ gOp \in BucketOps
    /\ HasAttempt(gInner, gPolicy)
    /\ gPc' = "direct"
    /\ UNCHANGED <<gOp, gPolicy, gOuter, gInner, gApiCalls, gOutcome>>
    /\ UNCHANGED notGateway

\* self._buckets: the accessor raises
GatewayAccessorRaises ==
    /\ gPc = "retry_decorator"
    /\ gOp \in BucketOps
    /\ HasAttempt(gInner, gPolicy)
    /\ gInner' = OnFailure(gInner, gPolicy, gInner.attempt + 1)
    /\ UNCHANGED <<gOp, gPolicy, gPc, gOuter, gApiCalls, gOutcome>>
    /\ UNCHANGED notGateway

\* self._buckets.list() / .detail(): the remote call returns
GatewayDirectReturns ==
    /\ gPc = "direct"
    /\ gApiCalls' = gApiCalls + 1
    /\ gPc' = "done"
    /\ gOutcome' = "returned"
    /\ UNCHANGED <<gOp, gPolicy, gOuter, gInner>>
    /\ UNCHANGED notGateway

\* self._buckets.list() / .detail() raises: except Exception, raise
\* StorageError, which fails the attempt of the decorator
GatewayDirectRaises ==
    /\ gPc = "direct"
    /\ gApiCalls' = gApiCalls + 1
    /\ gOuter' = OnFailure(gOuter, DefaultPolicy, gOuter.attempt + 1)
    /\ gPc' = "decorator"
    /\ UNCHANGED <<gOp, gPolicy, gInner, gOutcome>>
    /\ UNCHANGED notGateway

\* retry_decorator has no attempt left and raises: except Exception, raise
\* StorageError, which fails the attempt of the decorator
GatewayInnerExhausted ==
    /\ gPc = "retry_decorator"
    /\ ~HasAttempt(gInner, gPolicy)
    /\ gInner' = OnExhausted(gInner, gPolicy).frame
    /\ gOuter' = OnFailure(gOuter, DefaultPolicy, gOuter.attempt + 1)
    /\ gPc' = "decorator"
    /\ UNCHANGED <<gOp, gPolicy, gApiCalls, gOutcome>>
    /\ UNCHANGED notGateway

\* the decorator has no attempt left and raises the last StorageError
GatewayExhausted ==
    /\ gPc = "decorator"
    /\ ~HasAttempt(gOuter, DefaultPolicy)
    /\ gOuter' = OnExhausted(gOuter, DefaultPolicy).frame
    /\ gPc' = "done"
    /\ gOutcome' = "raised"
    /\ UNCHANGED <<gOp, gPolicy, gInner, gApiCalls>>
    /\ UNCHANGED notGateway

GatewayNext ==
    \/ GatewayAttempt
    \/ GatewayRemoteReturns
    \/ GatewayRemoteRaises
    \/ GatewayAccessorReturns
    \/ GatewayAccessorRaises
    \/ GatewayDirectReturns
    \/ GatewayDirectRaises
    \/ GatewayInnerExhausted
    \/ GatewayExhausted

SpecGateway == GatewayInit /\ [][GatewayNext]_vars

(* ------------------------------------------------------------------------ *)
(* FileHandler and sync_file                                                *)
(* ------------------------------------------------------------------------ *)

MaxMappings == 2
MaxClock == 2

\* src_path of the events the observer delivers
WatchedPaths == {"data/a.csv", "data/b.csv"}

\* file_path values of the configuration; "./data/a.csv" names the file of
\* "data/a.csv"
MappingPaths == WatchedPaths \cup {"./data/a.csv"}

\* pathlib.Path(p): a leading "./" is dropped
Path(p) == IF p = "./data/a.csv" THEN "data/a.csv" ELSE p

\* a mapping of the configuration file; "absent" is a mapping without the
\* enabled key
SyncModes == {"full_load", "incremental", "streaming"}

Mappings ==
    [file_path : MappingPaths, enabled : {"true", "false", "absent"},
     sync_mode : SyncModes]

MappingLists ==
    UNION {[1..n -> Mappings] : n \in 1..MaxMappings}

FileEvents ==
    [type : {"FileModifiedEvent", "DirModifiedEvent"}, src_path : WatchedPaths]

\* a loop that looks at no flag
MappingEnabled_Always(m) == TRUE

\* mapping.get('enabled', True)
MappingEnabled(m) == m.enabled # "false"

\* if now - last_sync < 1.0
Debounce == 1

\* time.time() when the handler is built: later than the epoch by more than
\* the debounce interval
ClockStart == 1

\* self.last_syncs.get(file_path, 0)
LastSync(path) == IF path \in DOMAIN dLastSyncs THEN dLastSyncs[path] ELSE 0

\* self.last_syncs[file_path] = now
SetLastSync(path, now) ==
    [q \in (DOMAIN dLastSyncs) \cup {path} |->
        IF q = path THEN now ELSE dLastSyncs[q]]

Done(idx, what, outcome) ==
    [mapping |-> idx, what |-> what, outcome |-> outcome,
     is_incremental |-> FALSE, payload |-> "none"]

\* a create_table / load_table call of sync_file: both are handed the path of
\* the whole file, load_table with is_incremental = (sync_mode == 'incremental')
Written(idx, what, outcome, mode) ==
    [mapping |-> idx, what |-> what, outcome |-> outcome,
     is_incremental |-> (what = "load_table" /\ mode = "incremental"),
     payload |-> "whole_file"]

\* Daemon.start builds FileHandler(mappings=self.config.get('mappings', []))
DaemonInit ==
    /\ dMappings \in MappingLists
    /\ dNow = ClockStart
    /\ dLastSyncs = <<>>
    /\ dPc = "idle"
    /\ dEvent = NoFileEvent
    /\ dIdx = 0
    /\ dTableExists = FALSE
    /\ dSyncs = {}
    /\ WatcherInit /\ RetryIdle /\ GatewayIdle /\ HandlersIdle

\* time passes
DaemonTick ==
    /\ dNow < MaxClock
    /\ dNow' = dNow + 1
    /\ UNCHANGED <<dMappings, dLastSyncs, dPc, dEvent, dIdx, dTableExists, dSyncs>>
    /\ UNCHANGED notDaemon

\* on_modified(event): if not isinstance(event, FileModifiedEvent): return
DaemonOnModified ==
    /\ dPc = "idle"
    /\ \E e \in FileEvents :
          IF e.type = "FileModifiedEvent"
          THEN /\ dEvent' = e
               /\ dIdx' = 1
               /\ dPc' = "loop"
          ELSE UNCHANGED <<dEvent, dIdx, dPc>>
    /\ UNCHANGED <<dMappings, dNow, dLastSyncs, dTableExists, dSyncs>>
    /\ UNCHANGED notDaemon

\* for mapping in self.mappings: the loop is over and on_modified returns
DaemonLoopEnd ==
    /\ dPc = "loop"
    /\ dIdx > Len(dMappings)
    /\ dPc' = "idle"
    /\ dEvent' = NoFileEvent
    /\ dIdx' = 0
    /\ dSyncs' = {}
    /\ UNCHANGED <<dMappings, dNow, dLastSyncs, dTableExists>>
    /\ UNCHANGED notDaemon

\* if not mapping.get('enabled', True): continue
DaemonSkipDisabled ==
    /\ dPc = "loop"
    /\ dIdx <= Len(dMappings)
    /\ ~MappingEnabled(dMappings[dIdx])
    /\ dIdx' = dIdx + 1
    /\ UNCHANGED <<dMappings, dNow, dLastSyncs, dPc, dEvent, dTableExists, dSyncs>>
    /\ UNCHANGED notDaemon

\* if Path(mapping['file_path']) == Path(file_path): the mapping is for
\* another file
DaemonSkipOther ==
    /\ dPc = "loop"
    /\ dIdx <= Len(dMappings)
    /\ MappingEnabled(dMappings[dIdx])
    /\ Path(dMappings[dIdx].file_path) # Path(dEvent.src_path)
    /\ dIdx' = dIdx + 1
    /\ UNCHANGED <<dMappings, dNow, dLastSyncs, dPc, dEvent, dTableExists, dSyncs>>
    /\ UNCHANGED notDaemon

\* _handle_file_change: if now - last_sync < 1.0: return
DaemonDebounced ==
    /\ dPc = "loop"
    /\ dIdx <= Len(dMappings)
    /\ MappingEnabled(dMappings[dIdx])
    /\ Path(dMappings[dIdx].file_path) = Path(dEvent.src_path)
    /\ dNow - LastSync(dEvent.src_path) < Debounce
    /\ dIdx' = dIdx + 1
    /\ UNCHANGED <<dMappings, dNow, dLastSyncs, dPc, dEvent, dTableExists, dSyncs>>
    /\ UNCHANGED notDaemon

\* _handle_file_change: self.last_syncs[file_path] = now; sync_file(...)
DaemonHandleFileChange ==
    /\ dPc = "loop"
    /\ dIdx <= Len(dMappings)
    /\ MappingEnabled(dMappings[dIdx])
    /\ Path(dMappings[dIdx].file_path) = Path(dEvent.src_path)
    /\ ~(dNow - LastSync(dEvent.src_path) < Debounce)
    /\ dLastSyncs' = SetLastSync(dEvent.src_path, dNow)
    /\ dSyncs' = dSyncs \cup {Done(dIdx, "sync_file", "called")}
    /\ dPc' = "sync_file"
    /\ UNCHANGED <<dMappings, dNow, dEvent, dIdx, dTableExists>>
    /\ UNCHANGED notDaemon

\* sync_file: if not path.exists(): warning, return.  Whether the file is
\* still there is up to the file system at this moment.
SyncFileMissing ==
    /\ dPc = "sync_file"
    /\ dSyncs' = dSyncs \cup {Done(dIdx, "sync_file", "missing")}
    /\ dPc' = "loop"
    /\ dIdx' = dIdx + 1
    /\ UNCHANGED <<dMappings, dNow, dLastSyncs, dEvent, dTableExists>>
    /\ UNCHANGED notDaemon

\* sync_file: storage_client.get_table(bucket_id, table_id) in try/except:
\* table_exists is whether the call returned
SyncGetTable ==
    /\ dPc = "sync_file"
    /\ \E o \in GatewayOutcomes("get_table") :
          /\ dTableExists' = (o = "ok")
          /\ dSyncs' = dSyncs \cup {Done(dIdx, "get_table", o)}
    /\ dPc' = "write"
    /\ UNCHANGED <<dMappings, dNow, dLastSyncs, dEvent, dIdx>>
    /\ UNCHANGED notDaemon

\* sync_file: create_table(bucket_id=..., table_id=...) when the table is
\* missing, else load_table(bucket_id=..., table_id=..., is_incremental=...);
\* an exception is logged and raised again, and _handle_file_change's except
\* Exception logs it and returns to the loop
SyncWrite ==
    /\ dPc = "write"
    /\ LET op == IF dTableExists THEN "load_table" ELSE "create_table" IN
          \E o \in GatewayOutcomes(op) :
              dSyncs' = dSyncs \cup
                  {Written(dIdx, op, o, dMappings[dIdx].sync_mode)}
    /\ dPc' = "loop"
    /\ dIdx' = dIdx + 1
    /\ dTableExists' = FALSE
    /\ UNCHANGED <<dMappings, dNow, dLastSyncs, dEvent>>
    /\ UNCHANGED notDaemon

DaemonNext ==
    \/ DaemonTick
    \/ DaemonOnModified
    \/ DaemonLoopEnd
    \/ DaemonSkipDisabled
    \/ DaemonSkipOther
    \/ DaemonDebounced
    \/ DaemonHandleFileChange
    \/ SyncFileMissing
    \/ SyncGetTable
    \/ SyncWrite

SpecDaemon == DaemonInit /\ [][DaemonNext]_vars

(* ------------------------------------------------------------------------ *)
(* FullLoadHandler                                                          *)
(* ------------------------------------------------------------------------ *)

\* largest number of calls of one handler method in a run
MaxHandlerCalls == 2

\* number of times the file is rewritten
MaxVersions == 2

\* What a call of the storage client handed to a sync handler ends with.  The
\* handlers pass bucket_id=, table_id= and is_incremental= keywords: a client
\* that takes them returns or raises StorageError, and StorageClient of
\* storage_client.py, which does not, raises TypeError.
HandlerGatewayOutcomes == {"ok", "StorageError", "TypeError"}

\* handle_modified of a mode that appends
FullLoadModifiedCall_Incremental(file) ==
    [op |-> "load_table", is_incremental |-> TRUE, payload |-> file]

\* FullLoadHandler.handle_modified: self.storage.load_table(...,
\* file_path=file_path, is_incremental=False)
FullLoadModifiedCall(file) ==
    [op |-> "load_table", is_incremental |-> FALSE, payload |-> file]

\* FullLoadHandler.handle_created: self.storage.create_table(...,
\* file_path=file_path, primary_key=...)
FullLoadCreatedCall(file) ==
    [op |-> "create_table", is_incremental |-> FALSE, payload |-> file]

\* the gateway call c, issued by method by when the file was current and
\* ending with outcome o
Issued(c, by, current, o) ==
    [op |-> c.op, is_incremental |-> c.is_incremental, payload |-> c.payload,
     by |-> by, current |-> current, outcome |-> o]

FullLoadInit ==
    /\ fFile = 1
    /\ fCreated = 0
    /\ fModified = 0
    /\ fCalls = <<>>
    /\ WatcherInit /\ RetryIdle /\ GatewayIdle /\ DaemonIdle /\ IncrementalIdle
    /\ PrepareIdle /\ StreamingIdle /\ StartupIdle /\ ObserverIdle /\ ConfigIdle

\* the file is rewritten between two events
FullLoadFileChanges ==
    /\ fFile < MaxVersions
    /\ fFile' = fFile + 1
    /\ UNCHANGED <<fCreated, fModified, fCalls>>
    /\ UNCHANGED notFullLoad

\* FullLoadHandler.handle_created: one create_table call; StorageError is
\* logged and raised again, any other exception passes through
FullLoadHandleCreated ==
    /\ fCreated < MaxHandlerCalls
    /\ fCreated' = fCreated + 1
    /\ \E o \in HandlerGatewayOutcomes :
          fCalls' = Append(fCalls,
                           Issued(FullLoadCreatedCall(fFile), "handle_created", fFile, o))
    /\ UNCHANGED <<fFile, fModified>>
    /\ UNCHANGED notFullLoad

\* FullLoadHandler.handle_modified: one load_table call; StorageError is
\* logged and raised again, any other exception passes through
FullLoadHandleModified ==
    /\ fModified < MaxHandlerCalls
    /\ fModified' = fModified + 1
    /\ \E o \in HandlerGatewayOutcomes :
          fCalls' = Append(fCalls,
                           Issued(FullLoadModifiedCall(fFile), "handle_modified", fFile, o))
    /\ UNCHANGED <<fFile, fCreated>>
    /\ UNCHANGED notFullLoad

FullLoadNext ==
    \/ FullLoadFileChanges
    \/ FullLoadHandleCreated
    \/ FullLoadHandleModified

SpecFullLoad == FullLoadInit /\ [][FullLoadNext]_vars

(* ------------------------------------------------------------------------ *)
(* IncrementalHandler                                                       *)
(* ------------------------------------------------------------------------ *)

\* concurrent invocations of one IncrementalHandler; worker w handles the
\* events of its own path and names its temp file w
NumWorkers == 2
Workers == 1..NumWorkers

\* largest number of lines of a file
MaxLines == 3

\* the text of line k of a file: a header, then one row per line
Digits == <<"1", "2", "3", "4", "5", "6", "7", "8", "9">>
Line(k) ==
    IF k = 1 THEN <<"i", "d", ",", "v", "\n">>
             ELSE <<Digits[k], ",", "x", "\n">>

\* the lines from..to of the file
Lines(from, to) == [k \in 1..(to - from + 1) |-> Line(from + k - 1)]

\* a count that leaves the header out
CountLines_DataRows(file) == Len(Lines(1, file)) - 1

\* _count_lines: sum(1 for _ in f), every line of the file, the header too
CountLines(file) == Len(Lines(1, file))

\* a watermark that moves whatever load_table ended with
WatermarkAfterLoad_Always(outcome, old, total) == total

\* handle_modified: self._processed_lines[str(file_path)] = total_lines is
\* reached only when load_table returned
WatermarkAfterLoad(outcome, old, total) ==
    IF outcome = "ok" THEN total ELSE old

RECURSIVE Concat(_)
Concat(seqs) == IF seqs = <<>> THEN <<>> ELSE Head(seqs) \o Concat(Tail(seqs))

\* csv.writer, excel dialect, QUOTE_MINIMAL: a field holding the delimiter,
\* the quote character or a line break is written between quotes
CsvField(f) ==
    IF f \in {",", "\n", "\r"} THEN <<"\"", f, "\"">>
    ELSE IF f = "\"" THEN <<"\"", "\"", "\"", "\"">>
    ELSE <<f>>

\* csv.writer.writerow(row) for a row that is a str: the writer iterates over
\* the row, so every character is a field; fields are joined by "," and the
\* row is ended by "\r\n"
CsvWriteRow(row) ==
    Concat([k \in 1..Len(row) |->
               IF k = 1 THEN CsvField(row[k]) ELSE <<",">> \o CsvField(row[k])])
        \o <<"\r", "\n">>

\* a slice file made of the header and the new lines as they are
WriteSlice_HeaderAndLines(newLines) == <<Line(1)>> \o newLines

\* writer.writerows(new_lines): the content of the temp file, line by line
WriteSlice(newLines) == [k \in 1..Len(newLines) |-> CsvWriteRow(newLines[k])]

NoLocals == [total |-> 0, last |-> 0]
NoCall == [op |-> "none", is_incremental |-> FALSE, from |-> 0, to |-> 0,
           content |-> <<>>, outcome |-> "none"]

IncrementalInit ==
    /\ iFile = [w \in Workers |-> 1]
    /\ iWatermark = [w \in Workers |-> 0]
    /\ iTempFiles = {}
    /\ iOnDisk = {}
    /\ iPc = [w \in Workers |-> "idle"]
    /\ iMethod = [w \in Workers |-> "none"]
    /\ iLocals = [w \in Workers |-> NoLocals]
    /\ iCall = [w \in Workers |-> NoCall]
    /\ iExc = [w \in Workers |-> "none"]
    /\ iDirty = [w \in Workers |-> FALSE]
    /\ iTodo = [w \in Workers |-> {}]
    /\ iEntry = [w \in Workers |-> 0]
    /\ iQuiet = [w \in Workers |-> FALSE]
    /\ WatcherInit /\ RetryIdle /\ GatewayIdle /\ DaemonIdle /\ FullLoadIdle
    /\ PrepareIdle /\ StreamingIdle /\ StartupIdle /\ ObserverIdle /\ ConfigIdle

\* A line is appended to the file of w by whoever produces it.  The worker
\* reads the file when it counts and reads lines; a change made at a position
\* after which the invocation no longer reads the file is the change made
\* right after its return, and one made before its first read is the change
\* made right before the call.
IncFileAppend(w) ==
    /\ iFile[w] < MaxLines
    /\ iPc[w] \in {"idle", "created", "read"}
    /\ iFile' = [iFile EXCEPT ![w] = @ + 1]
    /\ iQuiet' = [iQuiet EXCEPT ![w] = FALSE]
    /\ UNCHANGED <<iWatermark, iTempFiles, iOnDisk, iPc, iMethod, iLocals, iCall,
                   iExc, iDirty, iTodo, iEntry>>
    /\ UNCHANGED notIncremental

\* the file of w is cut back by one line; its header line stays
IncFileTruncate(w) ==
    /\ iFile[w] > 1
    /\ iPc[w] \in {"idle", "read"}
    /\ iFile' = [iFile EXCEPT ![w] = @ - 1]
    /\ iQuiet' = [iQuiet EXCEPT ![w] = FALSE]
    /\ UNCHANGED <<iWatermark, iTempFiles, iOnDisk, iPc, iMethod, iLocals, iCall,
                   iExc, iDirty, iTodo, iEntry>>
    /\ UNCHANGED notIncremental

\* handle_created or handle_modified is called for the path of w;
\* handle_created is for a file that appeared, whose path has no watermark
IncInvoke(w) ==
    /\ iPc[w] = "idle"
    /\ \E method \in {"handle_created", "handle_modified"} :
          /\ method = "handle_created" => iWatermark[w] = 0
          /\ iMethod' = [iMethod EXCEPT ![w] = method]
          /\ iPc' = [iPc EXCEPT ![w] =
                        IF method = "handle_created" THEN "create" ELSE "count"]
    /\ iEntry' = [iEntry EXCEPT ![w] = iWatermark[w]]
    /\ UNCHANGED <<iFile, iWatermark, iTempFiles, iOnDisk, iLocals, iCall, iExc,
                   iDirty, iTodo, iQuiet>>
    /\ UNCHANGED notIncremental

\* handle_created: self.storage.create_table(..., file_path=file_path, ...);
\* StorageError is logged and raised again, another exception passes through
IncCreateTable(w) ==
    /\ iPc[w] = "create"
    /\ \E o \in HandlerGatewayOutcomes :
          /\ iCall' = [iCall EXCEPT ![w] =
                          [op |-> "create_table", is_incremental |-> FALSE,
                           from |-> 1, to |-> iFile[w],
                           content |-> Lines(1, iFile[w]), outcome |-> o]]
          /\ iExc' = [iExc EXCEPT ![w] = IF o = "ok" THEN "none" ELSE o]
          /\ iPc' = [iPc EXCEPT ![w] = IF o = "ok" THEN "created" ELSE "return"]
    /\ UNCHANGED <<iFile, iWatermark, iTempFiles, iOnDisk, iMethod, iLocals,
                   iDirty, iTodo, iEntry, iQuiet>>
    /\ UNCHANGED notIncremental

\* handle_created: self._processed_lines[str(file_path)] =
\* self._count_lines(file_path)
IncRecordCreated(w) ==
    /\ iPc[w] = "created"
    /\ iWatermark' = [iWatermark EXCEPT ![w] = CountLines(iFile[w])]
    /\ iPc' = [iPc EXCEPT ![w] = "return"]
    /\ UNCHANGED <<iFile, iTempFiles, iOnDisk, iMethod, iLocals, iCall, iExc, iDirty,
                   iTodo, iEntry, iQuiet>>
    /\ UNCHANGED notIncremental

\* a handle_modified that builds and loads a slice without looking whether
\* the file has anything new
IncCountLines_NoCheck(w) ==
    /\ iPc[w] = "count"
    /\ iLocals' = [iLocals EXCEPT ![w] =
                      [total |-> CountLines(iFile[w]), last |-> iFile[w]]]
    /\ iPc' = [iPc EXCEPT ![w] = "temp"]
    /\ UNCHANGED <<iFile, iWatermark, iTempFiles, iOnDisk, iMethod, iCall, iExc,
                   iDirty, iTodo, iEntry, iQuiet>>
    /\ UNCHANGED notIncremental

\* _read_new_lines: total_lines = self._count_lines(file_path); start_line =
\* self._processed_lines.get(str(file_path), 0); if start_line >= total_lines:
\* return [], total_lines -- and handle_modified returns through its finally
IncCountLines(w) ==
    /\ iPc[w] = "count"
    /\ iLocals' = [iLocals EXCEPT ![w] =
                      [total |-> CountLines(iFile[w]), last |-> iWatermark[w]]]
    /\ iPc' = [iPc EXCEPT ![w] =
                  IF iWatermark[w] >= CountLines(iFile[w]) THEN "cleanup" ELSE "read"]
    /\ UNCHANGED <<iFile, iWatermark, iTempFiles, iOnDisk, iMethod, iCall, iExc,
                   iDirty, iTodo, iEntry, iQuiet>>
    /\ UNCHANGED notIncremental

\* _read_new_lines: the file is opened again, start_line lines are skipped
\* with next(f) (StopIteration when the file has fewer) and the rest is read;
\* handle_modified returns when nothing was read
IncReadNewLines(w) ==
    /\ iPc[w] = "read"
    /\ IF iFile[w] < iWatermark[w]
       THEN /\ iExc' = [iExc EXCEPT ![w] = "StopIteration"]
            /\ iPc' = [iPc EXCEPT ![w] = "cleanup"]
            /\ UNCHANGED iLocals
       ELSE /\ iLocals' = [iLocals EXCEPT ![w].last = iFile[w]]
            /\ iPc' = [iPc EXCEPT ![w] =
                          IF iFile[w] = iWatermark[w] THEN "cleanup" ELSE "temp"]
            /\ UNCHANGED iExc
    /\ UNCHANGED <<iFile, iWatermark, iTempFiles, iOnDisk, iMethod, iCall,
                   iDirty, iTodo, iEntry, iQuiet>>
    /\ UNCHANGED notIncremental

\* handle_modified: the NamedTemporaryFile is created, its name is added to
\* self._temp_files and writer.writerows(new_lines) fills it; load_table is
\* entered.  Every worker that is iterating over self._temp_files finds it
\* changed.
IncWriteTemp(w) ==
    /\ iPc[w] = "temp"
    /\ iTempFiles' = iTempFiles \cup {w}
    /\ iOnDisk' = iOnDisk \cup {w}
    /\ iDirty' = [u \in Workers |-> iDirty[u] \/ (u # w /\ iPc[u] = "cleaning")]
    /\ iCall' = [iCall EXCEPT ![w] =
                    [op |-> "load_table", is_incremental |-> TRUE,
                     from |-> iWatermark[w] + 1, to |-> iLocals[w].last,
                     content |-> WriteSlice(Lines(iWatermark[w] + 1, iLocals[w].last)),
                     outcome |-> "running"]]
    /\ iPc' = [iPc EXCEPT ![w] = "load"]
    /\ UNCHANGED <<iFile, iWatermark, iMethod, iLocals, iExc, iTodo, iEntry,
                   iQuiet>>
    /\ UNCHANGED notIncremental

\* handle_modified: self.storage.load_table(..., file_path=Path(temp_file.name),
\* is_incremental=True) ends; on success self._processed_lines[...] =
\* total_lines; StorageError is logged and raised again, another exception
\* passes through; the finally is next
IncLoadTable(w) ==
    /\ iPc[w] = "load"
    /\ \E o \in HandlerGatewayOutcomes :
          /\ iCall' = [iCall EXCEPT ![w].outcome = o]
          /\ iExc' = [iExc EXCEPT ![w] = IF o = "ok" THEN "none" ELSE o]
          /\ iWatermark' = [iWatermark EXCEPT ![w] =
                               WatermarkAfterLoad(o, @, iLocals[w].total)]
    /\ iPc' = [iPc EXCEPT ![w] = "cleanup"]
    /\ UNCHANGED <<iFile, iTempFiles, iOnDisk, iMethod, iLocals, iDirty, iTodo,
                   iEntry, iQuiet>>
    /\ UNCHANGED notIncremental

\* cleanup: for temp_file in self._temp_files -- the iteration begins
IncCleanupBegin(w) ==
    /\ iPc[w] = "cleanup"
    /\ iTodo' = [iTodo EXCEPT ![w] = iTempFiles]
    /\ iDirty' = [iDirty EXCEPT ![w] = FALSE]
    /\ iPc' = [iPc EXCEPT ![w] = "cleaning"]
    /\ UNCHANGED <<iFile, iWatermark, iTempFiles, iOnDisk, iMethod, iLocals,
                   iCall, iExc, iEntry, iQuiet>>
    /\ UNCHANGED notIncremental

\* cleanup: the iterator is asked for the next name.  A set that changed size
\* raises RuntimeError out of cleanup and of the handler; else the next file
\* is removed if it exists, or the loop and the handler end.
IncCleanupStep(w) ==
    /\ iPc[w] = "cleaning"
    /\ IF iDirty[w]
       THEN /\ iExc' = [iExc EXCEPT ![w] = "RuntimeError"]
            /\ iPc' = [iPc EXCEPT ![w] = "return"]
            /\ iTodo' = [iTodo EXCEPT ![w] = {}]
            /\ UNCHANGED iOnDisk
       ELSE IF iTodo[w] = {}
       THEN /\ iPc' = [iPc EXCEPT ![w] = "return"]
            /\ UNCHANGED <<iExc, iTodo, iOnDisk>>
       ELSE \E name \in iTodo[w] :
               /\ iOnDisk' = iOnDisk \ {name}
               /\ iTodo' = [iTodo EXCEPT ![w] = @ \ {name}]
               /\ UNCHANGED <<iExc, iPc>>
    /\ iDirty' = [iDirty EXCEPT ![w] = FALSE]
    /\ UNCHANGED <<iFile, iWatermark, iTempFiles, iMethod, iLocals, iCall,
                   iEntry, iQuiet>>
    /\ UNCHANGED notIncremental

\* the method returns or raises to its caller
IncReturn(w) ==
    /\ iPc[w] = "return"
    /\ iQuiet' = [iQuiet EXCEPT ![w] =
                      iMethod[w] = "handle_modified" /\ iExc[w] = "none"]
    /\ iPc' = [iPc EXCEPT ![w] = "idle"]
    /\ iMethod' = [iMethod EXCEPT ![w] = "none"]
    /\ iLocals' = [iLocals EXCEPT ![w] = NoLocals]
    /\ iCall' = [iCall EXCEPT ![w] = NoCall]
    /\ iExc' = [iExc EXCEPT ![w] = "none"]
    /\ iEntry' = [iEntry EXCEPT ![w] = 0]
    /\ UNCHANGED <<iFile, iWatermark, iTempFiles, iOnDisk, iDirty, iTodo>>
    /\ UNCHANGED notIncremental

IncrementalNext ==
    \E w \in Workers :
        \/ IncFileAppend(w)
        \/ IncFileTruncate(w)
        \/ IncInvoke(w)
        \/ IncCreateTable(w)
        \/ IncRecordCreated(w)
        \/ IncCountLines(w)
        \/ IncReadNewLines(w)
        \/ IncWriteTemp(w)
        \/ IncLoadTable(w)
        \/ IncCleanupBegin(w)
        \/ IncCleanupStep(w)
        \/ IncReturn(w)

SpecIncremental == IncrementalInit /\ [][IncrementalNext]_vars

(* ------------------------------------------------------------------------ *)
(* StorageEventHandler: preparing the file for upload                       *)
(* ------------------------------------------------------------------------ *)

MaxSize == 3
MaxThreshold == 2
MaxEvents == 2

Sizes == 0 .. MaxSize
Thresholds == 0 .. MaxThreshold

\* a gate that also takes a file of exactly the threshold
OverThreshold_OrEqual(size, threshold) == size >= threshold

\* file_path.stat().st_size > self.compression_threshold, and in compress_file
\* file_size > threshold_bytes
OverThreshold(size, threshold) == size > threshold

\* no stat has been made
NotSeen == -1

\* upload_path = file_path; is_compressed = False
\* registered: str(compressed_path) was added to self._temp_files;
\* logged: 'Failed to compress file' went to the log
FreshLocals ==
    [seen |-> NotSeen, stat |-> NotSeen, gzip |-> "none",
     upload_path |-> "original", is_compressed |-> FALSE,
     registered |-> FALSE, logged |-> FALSE]

\* the is_compressed parameter of create_table / load_table as the handler's
\* call sets it: the call passes bucket_id, table_id and file_path and no
\* is_compressed, so the parameter has its default whatever the local
\* variable is_compressed holds
IsCompressedArgument(locals) == FALSE

\* a handler with its threshold, and the file of its first event
PrepareInit ==
    /\ pThreshold \in Thresholds
    /\ pSize \in Sizes
    /\ pMode \in {"created", "modified"}
    /\ pPc = "gate"
    /\ pLocals = FreshLocals
    /\ pCalls = <<>>
    /\ WatcherInit /\ RetryIdle /\ GatewayIdle /\ DaemonIdle
    /\ FullLoadIdle /\ IncrementalIdle /\ StreamingIdle /\ StartupIdle /\ ObserverIdle /\ ConfigIdle

\* the file is written to between the handler's stat and compress_file's
\* (what is written later does not change the path that is uploaded)
PrepareFileResized ==
    /\ pPc = "compress_file"
    /\ \E size \in Sizes \ {pSize} : pSize' = size
    /\ UNCHANGED <<pThreshold, pPc, pMode, pLocals, pCalls>>
    /\ UNCHANGED notPrepare

\* if file_path.stat().st_size > self.compression_threshold; a stat that
\* raises leaves the handler through its outer except
PrepareGate ==
    /\ pPc = "gate"
    /\ \E gone \in BOOLEAN :
         IF gone
         THEN /\ pPc' = "done"
              /\ UNCHANGED pLocals
         ELSE /\ pLocals' = [pLocals EXCEPT !.seen = pSize]
              /\ pPc' = IF OverThreshold(pSize, pThreshold)
                        THEN "compress_file" ELSE "call"
    /\ UNCHANGED <<pThreshold, pSize, pMode, pCalls>>
    /\ UNCHANGED notPrepare

\* compress_file: file_size = file_path.stat().st_size, compared again; None is
\* returned for a file not over the threshold, and an exception is logged by
\* the caller, which uploads the original
PrepareCompressFile ==
    /\ pPc = "compress_file"
    /\ \E gone \in BOOLEAN :
         IF gone
         THEN /\ pLocals' = [pLocals EXCEPT !.gzip = "failed", !.logged = TRUE]
              /\ pPc' = "call"
         ELSE /\ pLocals' = [pLocals EXCEPT !.stat = pSize]
              /\ pPc' = IF OverThreshold(pSize, pThreshold) THEN "gzip" ELSE "call"
    /\ UNCHANGED <<pThreshold, pSize, pMode, pCalls>>
    /\ UNCHANGED notPrepare

\* a handler that gives the event up when compress_file raises
PrepareGzip_AbortOnFailure ==
    /\ pPc = "gzip"
    /\ \E ok \in BOOLEAN :
         IF ok
         THEN /\ pLocals' = [pLocals EXCEPT !.gzip = "ok", !.upload_path = "temp",
                                            !.is_compressed = TRUE,
                                            !.registered = TRUE]
              /\ pPc' = "call"
         ELSE /\ pLocals' = [pLocals EXCEPT !.gzip = "failed", !.logged = TRUE]
              /\ pPc' = "done"
    /\ UNCHANGED <<pThreshold, pSize, pMode, pCalls>>
    /\ UNCHANGED notPrepare

\* compress_file: mkstemp and the gzip copy; on return upload_path =
\* compressed_path, is_compressed = True and the path is added to
\* self._temp_files, on an exception the caller logs 'Failed to compress
\* file' and keeps the original
PrepareGzip ==
    /\ pPc = "gzip"
    /\ \E ok \in BOOLEAN :
         pLocals' = IF ok
                    THEN [pLocals EXCEPT !.gzip = "ok", !.upload_path = "temp",
                                         !.is_compressed = TRUE,
                                         !.registered = TRUE]
                    ELSE [pLocals EXCEPT !.gzip = "failed", !.logged = TRUE]
    /\ pPc' = "call"
    /\ UNCHANGED <<pThreshold, pSize, pMode, pCalls>>
    /\ UNCHANGED notPrepare

\* self.storage.create_table(..., file_path=upload_path), or load_table in
\* _handle_file_modified
PrepareCall ==
    /\ pPc = "call"
    /\ pCalls' = Append(pCalls,
                        [op |-> IF pMode = "created" THEN "create_table"
                                                    ELSE "load_table",
                         threshold |-> pThreshold,
                         file_path |-> pLocals.upload_path,
                         seen |-> pLocals.seen,
                         stat |-> pLocals.stat,
                         gzip |-> pLocals.gzip,
                         is_compressed |-> IsCompressedArgument(pLocals)])
    /\ pPc' = "done"
    /\ UNCHANGED <<pThreshold, pSize, pMode, pLocals>>
    /\ UNCHANGED notPrepare

\* the next event, for a file of some size
PrepareNextEvent ==
    /\ pPc = "done"
    /\ Len(pCalls) < MaxEvents
    /\ pSize' \in Sizes
    /\ pMode' \in {"created", "modified"}
    /\ pLocals' = FreshLocals
    /\ pPc' = "gate"
    /\ UNCHANGED <<pThreshold, pCalls>>
    /\ UNCHANGED notPrepare

PrepareNext ==
    \/ PrepareFileResized
    \/ PrepareGate
    \/ PrepareCompressFile
    \/ PrepareGzip
    \/ PrepareCall
    \/ PrepareNextEvent

SpecPrepare == PrepareInit /\ [][PrepareNext]_vars

(* ------------------------------------------------------------------------ *)
(* StreamingHandler                                                         *)
(* ------------------------------------------------------------------------ *)

MaxStreamLines == 3
MaxBatch == 2
MaxFailures == 2

\* line k of the streamed file, as read by 'for line in f'; the second line
\* ends in a blank before its line terminator
StreamLine(k) ==
    IF k = 2 THEN <<"b", " ", "\n">>
    ELSE <<Digits[k], "\n">>

Whitespace == {" ", "\t", "\r", "\n"}

RECURSIVE StripLeft(_)
StripLeft(line) ==
    IF line = <<>> THEN line
    ELSE IF Head(line) \in Whitespace THEN StripLeft(Tail(line))
    ELSE line

RECURSIVE StripRight(_)
StripRight(line) ==
    IF line = <<>> THEN line
    ELSE IF line[Len(line)] \in Whitespace
         THEN StripRight(SubSeq(line, 1, Len(line) - 1))
    ELSE line

\* line.strip()
Strip(line) == StripRight(StripLeft(line))

\* the line without its line terminator
Chomp(line) ==
    IF line # <<>> /\ line[Len(line)] = "\n"
    THEN SubSeq(line, 1, Len(line) - 1) ELSE line

StreamOptions == [has_endpoint : BOOLEAN, batch_size : 1 .. MaxBatch]

NoStreamLocals == [next |-> 1, current_batch |-> <<>>, stored |-> FALSE]

\* a handler that knows no file yet; the file exists with some lines
StreamingInit ==
    /\ sLen \in 0 .. MaxStreamLines
    /\ sOptions = [has_endpoint |-> TRUE, batch_size |-> 1]
    /\ sBatchSize = 0
    /\ sStored = <<>>
    /\ sPc = "idle"
    /\ sMethod = "none"
    /\ sLocals = NoStreamLocals
    /\ sPosts = <<>>
    /\ sExc = "none"
    /\ sFailures = 0
    /\ WatcherInit /\ RetryIdle /\ GatewayIdle /\ DaemonIdle
    /\ FullLoadIdle /\ IncrementalIdle /\ PrepareIdle /\ StartupIdle /\ ObserverIdle /\ ConfigIdle

\* the file is rewritten between two events
StreamFileChanges ==
    /\ sPc = "idle"
    /\ \E len \in (0 .. MaxStreamLines) \ {sLen} : sLen' = len
    /\ UNCHANGED <<sOptions, sBatchSize, sStored, sPc, sMethod, sLocals, sPosts,
                   sExc, sFailures>>
    /\ UNCHANGED notStreaming

\* handle_created: self._batch_sizes[file_key] = self._get_batch_size(options);
\* self._current_batches[file_key] = []; then self.handle_modified(...).
\* handle_modified begins with its try.
StreamInvoke ==
    /\ sPc = "idle"
    /\ \E method \in {"handle_created", "handle_modified"}, options \in StreamOptions :
         /\ sMethod' = method
         /\ sOptions' = options
         /\ IF method = "handle_created"
            THEN /\ sBatchSize' = options.batch_size
                 /\ sStored' = <<>>
            ELSE UNCHANGED <<sBatchSize, sStored>>
    /\ sPc' = "endpoint"
    /\ sLocals' = NoStreamLocals
    /\ sPosts' = <<>>
    /\ sExc' = "none"
    /\ UNCHANGED <<sLen, sFailures>>
    /\ UNCHANGED notStreaming

\* endpoint = self._get_endpoint(options): without 'streaming_endpoint' the
\* statement 'raise ConfigurationError(...)' is executed; sync_handlers.py does
\* not bind the name ConfigurationError, so what is raised is NameError
StreamGetEndpoint ==
    /\ sPc = "endpoint"
    /\ IF sOptions.has_endpoint
       THEN /\ sPc' = "lookup"
            /\ UNCHANGED sExc
       ELSE /\ sPc' = "except"
            /\ sExc' = "NameError"
    /\ UNCHANGED <<sLen, sOptions, sBatchSize, sStored, sMethod, sLocals, sPosts,
                   sFailures>>
    /\ UNCHANGED notStreaming

\* batch_size = self._batch_sizes[file_key];
\* current_batch = self._current_batches[file_key]: KeyError for a path that
\* handle_created never saw, else current_batch is the stored list itself
StreamLookup ==
    /\ sPc = "lookup"
    /\ IF sBatchSize = 0
       THEN /\ sPc' = "except"
            /\ sExc' = "KeyError"
            /\ UNCHANGED sLocals
       ELSE /\ sPc' = "read"
            /\ sLocals' = [next |-> 1, current_batch |-> sStored, stored |-> TRUE]
            /\ UNCHANGED sExc
    /\ UNCHANGED <<sLen, sOptions, sBatchSize, sStored, sMethod, sPosts, sFailures>>
    /\ UNCHANGED notStreaming

\* for line in f: current_batch.append(line.strip()), which changes the stored
\* list while current_batch is that list; a batch of batch_size lines is sent.
\* After the last line: the lines that remain are sent, or, with none left,
\* self._current_batches[file_key] = current_batch
StreamReadLine ==
    /\ sPc = "read"
    /\ IF sLocals.next <= sLen
       THEN LET batch == Append(sLocals.current_batch, Strip(StreamLine(sLocals.next))) IN
            /\ sLocals' = [sLocals EXCEPT !.next = @ + 1, !.current_batch = batch]
            /\ sStored' = IF sLocals.stored THEN batch ELSE sStored
            /\ sPc' = IF Len(batch) >= sBatchSize THEN "send" ELSE "read"
       ELSE IF sLocals.current_batch # <<>>
       THEN /\ sPc' = "send_rest"
            /\ UNCHANGED <<sLocals, sStored>>
       ELSE /\ sStored' = sLocals.current_batch
            /\ sPc' = "return"
            /\ UNCHANGED sLocals
    /\ UNCHANGED <<sLen, sOptions, sBatchSize, sMethod, sPosts, sExc, sFailures>>
    /\ UNCHANGED notStreaming

\* a _send_batch whose failure is logged and not raised
StreamSendBatch_Swallow ==
    /\ sPc \in {"send", "send_rest"}
    /\ \E ok \in BOOLEAN :
         /\ ~ok => sFailures < MaxFailures
         /\ sPosts' = Append(sPosts, [lines |-> sLocals.current_batch, ok |-> ok])
         /\ sFailures' = IF ok THEN sFailures ELSE sFailures + 1
    /\ sLocals' = [sLocals EXCEPT !.current_batch = <<>>, !.stored = FALSE]
    /\ IF sPc = "send"
       THEN /\ sPc' = "read"
            /\ UNCHANGED sStored
       ELSE /\ sPc' = "return"
            /\ sStored' = <<>>
    /\ UNCHANGED <<sLen, sOptions, sBatchSize, sMethod, sExc>>
    /\ UNCHANGED notStreaming

\* self._send_batch(endpoint, current_batch, file_path); current_batch = [].
\* requests.post and raise_for_status: a RequestException is logged and
\* raised again.  After the send for the rest of the file handle_modified
\* stores the empty current_batch.
StreamSendBatch ==
    /\ sPc \in {"send", "send_rest"}
    /\ \E ok \in BOOLEAN :
         /\ ~ok => sFailures < MaxFailures
         /\ sPosts' = Append(sPosts, [lines |-> sLocals.current_batch, ok |-> ok])
         /\ IF ok
            THEN /\ sLocals' = [sLocals EXCEPT !.current_batch = <<>>, !.stored = FALSE]
                 /\ IF sPc = "send"
                    THEN /\ sPc' = "read"
                         /\ UNCHANGED sStored
                    ELSE /\ sPc' = "return"
                         /\ sStored' = <<>>
                 /\ UNCHANGED <<sExc, sFailures>>
            ELSE /\ sPc' = "except"
                 /\ sExc' = "RequestException"
                 /\ sFailures' = sFailures + 1
                 /\ UNCHANGED <<sLocals, sStored>>
    /\ UNCHANGED <<sLen, sOptions, sBatchSize, sMethod>>
    /\ UNCHANGED notStreaming

\* except Exception as e: self.logger.error(...); raise
StreamExcept ==
    /\ sPc = "except"
    /\ sPc' = "return"
    /\ UNCHANGED <<sLen, sOptions, sBatchSize, sStored, sMethod, sLocals, sPosts,
                   sExc, sFailures>>
    /\ UNCHANGED notStreaming

\* the invocation is over: it returned, or sExc went to its caller
StreamReturn ==
    /\ sPc = "return"
    /\ sPc' = "idle"
    /\ sLocals' = NoStreamLocals
    /\ UNCHANGED <<sLen, sOptions, sBatchSize, sStored, sMethod, sPosts, sExc,
                   sFailures>>
    /\ UNCHANGED notStreaming

StreamingNext ==
    \/ StreamFileChanges
    \/ StreamInvoke
    \/ StreamGetEndpoint
    \/ StreamLookup
    \/ StreamReadLine
    \/ StreamSendBatch
    \/ StreamExcept
    \/ StreamReturn

SpecStreaming == StreamingInit /\ [][StreamingNext]_vars

(* ------------------------------------------------------------------------ *)
(* Start-up: Config, FileMapping, DaemonContext and Daemon.start            *)
(* ------------------------------------------------------------------------ *)

MaxStartupEvents == 2

\* what config.json can hold for a field that must be a string
FieldValues == {"absent", "not_str", "empty", "text"}

ValidSyncModes == {"full_load", "incremental", "streaming"}

SyncModeValues == {"absent", "not_str", "empty", "bogus"} \cup ValidSyncModes

ConfigMappings ==
    [file_path : FieldValues, bucket_id : FieldValues, table_id : FieldValues,
     sync_mode : SyncModeValues]

\* FileMapping._validate_str: key not in mapping or not isinstance(.., str)
\* raises; any string passes, the empty one too
ValidateStr(value) == value \notin {"absent", "not_str"}

\* FileMapping._validate_sync_mode: _validate_str, then SyncMode.is_valid
ValidateSyncMode(value) == ValidateStr(value) /\ value \in ValidSyncModes

\* FileMapping.__init__ returns (does not raise ConfigurationError)
FileMappingAccepts(m) ==
    /\ ValidateStr(m.file_path)
    /\ ValidateStr(m.bucket_id)
    /\ ValidateStr(m.table_id)
    /\ ValidateSyncMode(m.sync_mode)

StartupEntries == {"Config(config_file)", "DaemonContext", "Daemon.start"}

\* a config.json with one mapping, and the code that is about to start
StartupInit ==
    /\ uConfig \in ConfigMappings
    /\ uEntry \in StartupEntries
    /\ uPc = "starting"
    /\ uError = "none"
    /\ uEvents = 0
    /\ WatcherInit /\ RetryIdle /\ GatewayIdle /\ DaemonIdle
    /\ FullLoadIdle /\ IncrementalIdle /\ PrepareIdle /\ StreamingIdle /\ ObserverIdle /\ ConfigIdle

\* Config.__init__ given the config file: the file is loaded and every
\* mapping goes through FileMapping; a watcher is started on what it accepted
StartFromConfigFile ==
    /\ uPc = "starting"
    /\ uEntry = "Config(config_file)"
    /\ \E readable \in BOOLEAN :
         IF readable /\ FileMappingAccepts(uConfig)
         THEN /\ uPc' = "watching"
              /\ UNCHANGED uError
         ELSE /\ uPc' = "failed"
              /\ uError' = "ConfigurationError"
    /\ UNCHANGED <<uConfig, uEntry, uEvents>>
    /\ UNCHANGED notStartup

\* main.py, DaemonContext.__enter__: self.config = Config() is built without a
\* config file, so self._config is {} and no mapping is read or validated;
\* a missing environment variable raises ConfigurationError, else the
\* DirectoryWatcher is started
StartDaemonContext ==
    /\ uPc = "starting"
    /\ uEntry = "DaemonContext"
    /\ \E env \in BOOLEAN :
         IF env
         THEN /\ uPc' = "watching"
              /\ UNCHANGED uError
         ELSE /\ uPc' = "failed"
              /\ uError' = "ConfigurationError"
    /\ UNCHANGED <<uConfig, uEntry, uEvents>>
    /\ UNCHANGED notStartup

\* daemon.py, Daemon.start: _load_config calls json.load, and daemon.py does
\* not import json; the NameError is caught by 'except Exception' and
\* ConfigurationError is raised, whatever the file holds.  The rest of start
\* (FileHandler on the raw mapping dicts, Observer.start) is never reached.
StartDaemon ==
    /\ uPc = "starting"
    /\ uEntry = "Daemon.start"
    /\ uPc' = "failed"
    /\ uError' = "ConfigurationError"
    /\ UNCHANGED <<uConfig, uEntry, uEvents>>
    /\ UNCHANGED notStartup

\* the observer hands an event to the handler
StartupHandleEvent ==
    /\ uPc = "watching"
    /\ uEvents < MaxStartupEvents
    /\ uEvents' = uEvents + 1
    /\ UNCHANGED <<uConfig, uEntry, uPc, uError>>
    /\ UNCHANGED notStartup

StartupNext ==
    \/ StartFromConfigFile
    \/ StartDaemonContext
    \/ StartDaemon
    \/ StartupHandleEvent

SpecStartup == StartupInit /\ [][StartupNext]_vars

(* ------------------------------------------------------------------------ *)
(* DirectoryWatcher: one Observer, its thread and stop()                    *)
(* ------------------------------------------------------------------------ *)

MaxObserved == 3

ObservedPaths == {"shop/sales.csv", "shop/orders.csv"}

\* DirectoryWatcher.start: the handler is scheduled on one Observer, which is
\* started; the Observer has one thread that takes the detected events from
\* its queue one at a time and calls on_created/on_modified for each.  The
\* handlers start no thread of their own.
ObserverInit ==
    /\ oPaths = <<>>
    /\ oQueue = <<>>
    /\ oPc = "waiting"
    /\ oCurrent = 0
    /\ oStuck = FALSE
    /\ oHandled = {}
    /\ oStop = "running"
    /\ WatcherInit /\ RetryIdle /\ GatewayIdle /\ DaemonIdle
    /\ FullLoadIdle /\ IncrementalIdle /\ PrepareIdle /\ StreamingIdle /\ StartupIdle /\ ConfigIdle

\* a change in the watched directory is detected and queued; stop()
\* unsubscribes, after it nothing is queued
ObserverDetects ==
    /\ oStop = "running"
    /\ Len(oPaths) < MaxObserved
    /\ \E path \in ObservedPaths : oPaths' = Append(oPaths, path)
    /\ oQueue' = Append(oQueue, Len(oPaths) + 1)
    /\ UNCHANGED <<oPc, oCurrent, oStuck, oHandled, oStop>>
    /\ UNCHANGED notObserver

\* the thread takes the next event and calls the handler: on_created /
\* on_modified run the pipeline in this thread
ObserverDispatch ==
    /\ oPc = "waiting"
    /\ oStop = "running"
    /\ oQueue # <<>>
    /\ oCurrent' = Head(oQueue)
    /\ oQueue' = Tail(oQueue)
    /\ oPc' = "pipeline"
    /\ UNCHANGED <<oPaths, oStuck, oHandled, oStop>>
    /\ UNCHANGED notObserver

\* the pipeline calls the gateway (bucket_exists, ..., create_table /
\* load_table); the remote side answers at some time or never
ObserverRemoteCall ==
    /\ oPc = "pipeline"
    /\ oPc' = "remote_call"
    /\ \E stuck \in BOOLEAN : oStuck' = stuck
    /\ UNCHANGED <<oPaths, oQueue, oCurrent, oHandled, oStop>>
    /\ UNCHANGED notObserver

\* the remote call returns or raises, the handler finishes and returns to the
\* observer's loop
ObserverHandlerReturns ==
    /\ oPc = "remote_call"
    /\ ~oStuck
    /\ oHandled' = oHandled \cup {oCurrent}
    /\ oCurrent' = 0
    /\ oPc' = "waiting"
    /\ UNCHANGED <<oPaths, oQueue, oStuck, oStop>>
    /\ UNCHANGED notObserver

\* DirectoryWatcher.stop: self.observer.stop(), then self.observer.join()
ObserverStopCalled ==
    /\ oStop = "running"
    /\ oStop' = "joining"
    /\ UNCHANGED <<oPaths, oQueue, oPc, oCurrent, oStuck, oHandled>>
    /\ UNCHANGED notObserver

\* the observer's thread, back in its loop, sees that it was stopped and ends
ObserverThreadEnds ==
    /\ oPc = "waiting"
    /\ oStop = "joining"
    /\ oPc' = "ended"
    /\ UNCHANGED <<oPaths, oQueue, oCurrent, oStuck, oHandled, oStop>>
    /\ UNCHANGED notObserver

\* self.observer.join() has no timeout: it returns when the thread has ended;
\* then 'Directory watcher stopped' is logged and stop() returns
ObserverStopReturns ==
    /\ oStop = "joining"
    /\ oPc = "ended"
    /\ oStop' = "stopped"
    /\ UNCHANGED <<oPaths, oQueue, oPc, oCurrent, oStuck, oHandled>>
    /\ UNCHANGED notObserver

ObserverNext ==
    \/ ObserverDetects
    \/ ObserverDispatch
    \/ ObserverRemoteCall
    \/ ObserverHandlerReturns
    \/ ObserverStopCalled
    \/ ObserverThreadEnds
    \/ ObserverStopReturns

SpecObserver == ObserverInit /\ [][ObserverNext]_vars

\* every thread that can run does run, and a remote call that is not stuck
\* returns; nothing obliges the environment to produce events or to call stop()
SpecObserverLive ==
    /\ SpecObserver
    /\ WF_vars(ObserverDispatch)
    /\ WF_vars(ObserverRemoteCall)
    /\ WF_vars(ObserverHandlerReturns)
    /\ WF_vars(ObserverThreadEnds)
    /\ WF_vars(ObserverStopReturns)

(* ------------------------------------------------------------------------ *)
(* Config (config.py): get_mapping_for_file                                  *)
(* ------------------------------------------------------------------------ *)

\* Config._mappings: one FileMapping per entry of 'mappings', none when
\* the configuration has no such key
ConfigLists == {<<>>} \cup MappingLists

\* FileMapping.enabled = mapping_dict.get('enabled', True), tested for truth
FileMappingEnabled(m) == m.enabled # "false"

\* a test that looks at the path alone
MappingMatches_AnyState(m, file_path) == m.file_path = file_path

\* mapping.enabled and mapping.file_path == file_path: the two str objects
\* are compared as they are, no pathlib.Path is built
MappingMatches(m, file_path) ==
    FileMappingEnabled(m) /\ m.file_path = file_path

\* for mapping in self._mappings: if ...: return mapping; return None.
\* The mapping returned is told by its position in the list, None by 0.
RECURSIVE FirstMatchFrom(_, _, _)
FirstMatchFrom(mappings, file_path, k) ==
    IF k > Len(mappings) THEN 0
    ELSE IF MappingMatches(mappings[k], file_path) THEN k
    ELSE FirstMatchFrom(mappings, file_path, k + 1)

GetMappingForFile(mappings, file_path) == FirstMatchFrom(mappings, file_path, 1)

\* a Config built from a configuration file that FileMapping accepted
ConfigInit ==
    /\ cMappings \in ConfigLists
    /\ cPath = "none"
    /\ cResult = 0
    /\ WatcherInit /\ RetryIdle /\ GatewayIdle /\ DaemonIdle
    /\ FullLoadIdle /\ IncrementalIdle /\ PrepareIdle /\ StreamingIdle
    /\ StartupIdle /\ ObserverIdle

\* config.get_mapping_for_file(file_path)
ConfigGetMappingForFile ==
    /\ \E file_path \in MappingPaths :
         /\ cPath' = file_path
         /\ cResult' = GetMappingForFile(cMappings, file_path)
    /\ UNCHANGED cMappings
    /\ UNCHANGED notConfig

ConfigNext == ConfigGetMappingForFile

SpecConfig == ConfigInit /\ [][ConfigNext]_vars

(* ------------------------------------------------------------------------ *)

\* the threads one of whose invocations holds the guard of path p: the
\* invocation's _add_to_processing returned True and its
\* _remove_from_processing has not run yet
Holders(p) == {t \in Threads : held[t] > 0 /\ ev[t].path = p}

\* C1: for every path and every interleaving of creation and modification
\* events delivered concurrently, at most one invocation of
\* _handle_file_created/_handle_file_modified is between its successful
\* _add_to_processing and its _remove_from_processing.
C1_AtMostOneHolder ==
    \A p \in FilePaths :
        /\ Cardinality(Holders(p)) <= 1
        /\ \A t \in Holders(p) : held[t] = 1

\* C1 witness: one thread is in the upload of a path it holds while another
\* thread enters a handler with an event for the same path.
C1_Witness ==
    \E t, u \in Threads :
        /\ t # u
        /\ pc[t] = "upload" /\ held[t] = 1
        /\ pc[u] = "enter" /\ ev[u].path = ev[t].path

\* C2: every invocation that acquired the guard for a path has removed the
\* path from the processing set when it returns, on every exit path; so each
\* entry of the set belongs to an invocation still executing, the set is empty
\* when no handler is executing, and an event entering then is accepted.
C2_GuardReleasedOnReturn ==
    /\ \A t \in Threads : pc[t] \in {"idle", "return", "dir_created", "enter"} => held[t] = 0
    /\ \A p \in processing : Holders(p) # {}
    /\ (\A t \in Threads : held[t] = 0) => processing = {}
    /\ \A t \in Threads :
          (pc[t] = "enter" /\ Holders(ev[t].path) = {})
              => AddToProcessing(processing, ev[t].path).added

\* C2 witness: one invocation has returned after a remote error and another
\* after a file that was not ready, and the processing set is empty.
C2_Witness ==
    \E t, u \in Threads :
        /\ pc[t] = "return" /\ result[t] = "failed"
        /\ pc[u] = "return" /\ result[u] = "not_ready"
        /\ processing = {}

\* C3: an event whose path is already in the processing set is dropped: the
\* step that refuses it makes no gateway call, keeps no record of the event
\* for later, and leaves the processing set (and the holder's entry) as it is.
C3_DroppedEventNoEffect ==
    [][\A t \in Threads :
          (pc[t] = "enter" /\ ev[t].path \in processing /\ pc'[t] # pc[t])
              => /\ pc'[t] = "return"
                 /\ ev'[t] = NoEvent
                 /\ calls'[t] = <<>>
                 /\ processing' = processing
                 /\ held' = held
                 /\ tempFiles' = tempFiles]_vars

\* C3 witness: an event was dropped while the holder of its path is still in
\* the pipeline.
C3_Witness ==
    \E t, u \in Threads :
        /\ pc[t] = "return" /\ result[t] = "dropped"
        /\ held[u] = 1 /\ ev[u].path \in processing

RECURSIVE Pow(_, _)
Pow(b, e) == IF e <= 0 THEN 1 ELSE b * Pow(b, e - 1)

C7_AllAttemptsFail ==
    rOutcome.kind = "raised"
        => /\ rCalls = rPolicy.max_attempts
           /\ rFailed = rCalls
           /\ Len(rFrame.sleeps) = rPolicy.max_attempts - 1
           /\ rOutcome.value = rCalls

C9_FinalDelayClosedForm ==
    (/\ rOutcome.kind = "returned"
     /\ rPolicy.max_attempts >= 2
     /\ rFailed = rPolicy.max_attempts - 1)
        => /\ Len(rFrame.sleeps) = rPolicy.max_attempts - 1
           /\ rFrame.sleeps[Len(rFrame.sleeps)] =
                 Min(rPolicy.initial_delay
                        * Pow(rPolicy.backoff_factor, rPolicy.max_attempts - 2),
                     rPolicy.max_delay)

(* ------------------------------------------------------------------------ *)
(* Claims about StorageClient, checked under SpecGateway                    *)
(* ------------------------------------------------------------------------ *)

\* C10: one call of a gateway method makes at most max_retries calls to the
\* remote API, max_retries being the value StorageClient was constructed
\* with, before it returns or raises StorageError.
C10_RemoteCallsBoundedByMaxRetries ==
    gApiCalls <= gPolicy.max_attempts

(* ------------------------------------------------------------------------ *)
(* Claims about FileHandler, checked under SpecDaemon                       *)
(* ------------------------------------------------------------------------ *)

\* C4: whatever events arrive, nothing (sync_file, get_table, create_table,
\* load_table) is ever done on behalf of a mapping whose enabled flag is false.
C4_NoSyncForDisabledMapping ==
    \A d \in dSyncs : dMappings[d.mapping].enabled # "false"

\* C4 witness: an event arrived for the file of a disabled mapping, the loop
\* went past that mapping, and a later enabled mapping of the same file was
\* synced.
C4_Witness ==
    /\ Len(dMappings) = 2
    /\ dMappings[1].enabled = "false"
    /\ dMappings[2].enabled = "true"
    /\ Path(dMappings[1].file_path) = Path(dMappings[2].file_path)
    /\ dPc = "loop"
    /\ dIdx > Len(dMappings)
    /\ \E d \in dSyncs : d.mapping = 2 /\ d.what = "create_table"

\* C11: for every accepted event of an enabled mapping the synchronization
\* done is the one of the mapping's sync_mode: full_load loads the whole file
\* with is_incremental false, incremental loads the slice of new rows with
\* is_incremental true, streaming makes no load_table call.
C11_SyncFollowsSyncMode ==
    \A d \in dSyncs :
        d.what = "load_table" =>
            LET mode == dMappings[d.mapping].sync_mode IN
            /\ mode # "streaming"
            /\ mode = "full_load" => (~d.is_incremental /\ d.payload = "whole_file")
            /\ mode = "incremental" => (d.is_incremental /\ d.payload = "new_rows")

(* ------------------------------------------------------------------------ *)
(* Claims about the sync handlers                                           *)
(* ------------------------------------------------------------------------ *)

\* the calls of fCalls issued by method by
IssuedBy(by) == SelectSeq(fCalls, LAMBDA c : c.by = by)

\* C12: any sequence of N handle_modified calls of FullLoadHandler issues
\* exactly N load_table calls, each with is_incremental false and the file as
\* it is then as payload, and no create_table call.
C12_FullLoadModifiedLoadsWholeFile ==
    /\ Len(IssuedBy("handle_modified")) = fModified
    /\ \A i \in 1..Len(fCalls) :
          fCalls[i].by = "handle_modified" =>
              /\ fCalls[i].op = "load_table"
              /\ ~fCalls[i].is_incremental
              /\ fCalls[i].payload = fCalls[i].current

\* C12 witness: two handle_modified calls with the file rewritten in between,
\* the first load failed: two load_table calls and no create_table.
C12_Witness ==
    /\ fModified = 2
    /\ fCreated = 0
    /\ Len(fCalls) = 2
    /\ fCalls[1].payload = 1
    /\ fCalls[1].outcome = "StorageError"
    /\ fCalls[2].payload = 2
    /\ fCalls[2].outcome = "ok"

\* C13: a handle_modified that follows a handle_modified for the same path
\* which returned normally, with no change of the file since that return,
\* issues no load_table call.
C13_SecondCallLoadsNothing ==
    \A w \in Workers :
        (iMethod[w] = "handle_modified" /\ iQuiet[w]) => iCall[w].op = "none"

\* the invocation of w is over and raises nothing
Succeeded(w, method) ==
    iPc[w] = "return" /\ iMethod[w] = method /\ iExc[w] = "none"

\* C14, as stated: after handle_created succeeds on a file of one header line
\* and n data rows the watermark is n, and after m rows are appended and
\* handle_modified succeeds it is n + m (the file not changing meanwhile).
C14_WatermarkIsRowCount ==
    \A w \in Workers :
        /\ (Succeeded(w, "handle_created") /\ iCall[w].to = iFile[w])
              => iWatermark[w] = iFile[w] - 1
        /\ (Succeeded(w, "handle_modified") /\ iCall[w].outcome = "ok"
                /\ iLocals[w].total = iFile[w])
              => iWatermark[w] = iFile[w] - 1

\* C14, amended: after handle_created succeeds on a file of one header line
\* and n data rows the watermark is the line count n + 1, and after m rows are
\* appended and handle_modified succeeds it is n + 1 + m (the file not
\* changing during either call).
C14_WatermarkIsLineCount ==
    \A w \in Workers :
        /\ (Succeeded(w, "handle_created") /\ iCall[w].to = iFile[w])
              => iWatermark[w] = (iFile[w] - 1) + 1
        /\ (Succeeded(w, "handle_modified") /\ iCall[w].outcome = "ok"
                /\ iLocals[w].total = iFile[w] /\ iCall[w].to = iFile[w])
              => /\ iWatermark[w] = (iFile[w] - 1) + 1
                 /\ iWatermark[w] = iEntry[w] + (iCall[w].to - iCall[w].from + 1)

\* C14 witness: the table was made from a header and one row (watermark 2),
\* one row was appended and handle_modified succeeded: watermark 3.
C14_Witness ==
    \E w \in Workers :
        /\ Succeeded(w, "handle_modified")
        /\ iCall[w].outcome = "ok"
        /\ iEntry[w] = 2
        /\ iFile[w] = 3
        /\ iLocals[w].total = 3
        /\ iWatermark[w] = 3

\* C15: when the file has grown past the watermark, handle_modified makes one
\* load_table call with is_incremental true and a temp file that holds the
\* header line followed by the lines after the watermark up to the counted
\* total, as they are in the file and in file order.
C15_SliceIsHeaderAndNewLines ==
    \A w \in Workers :
        iCall[w].op = "load_table" =>
            /\ iCall[w].is_incremental
            /\ iCall[w].content =
                  WriteSlice_HeaderAndLines(Lines(iEntry[w] + 1, iLocals[w].total))

C17_NothingNewIsNoOp ==
    \A w \in Workers :
        (/\ iMethod[w] = "handle_modified"
         /\ iPc[w] \in {"temp", "load", "cleanup", "cleaning", "return"}
         /\ iLocals[w].total <= iEntry[w])
            => /\ iCall[w].op = "none"
               /\ iPc[w] # "temp"
               /\ iWatermark[w] = iEntry[w]

\* C17 witness: the file was cut back below the watermark and handle_modified
\* returned.
C17_Witness ==
    \E w \in Workers :
        /\ Succeeded(w, "handle_modified")
        /\ iEntry[w] = 3
        /\ iLocals[w].total = 2
        /\ iFile[w] = 2

\* C18: the temp slice file that handle_modified created no longer exists when
\* the invocation returns, whatever load_table ended with.
C18_TempFileGoneAtReturn ==
    \A w \in Workers :
        (iPc[w] = "return" /\ iCall[w].op = "load_table") => w \notin iOnDisk

\* C19: with concurrent handle_modified invocations for different paths, the
\* temp slice file of an invocation exists as long as its load_table call
\* lasts: no other invocation removes it.
C19_TempFileLivesDuringLoad ==
    \A w \in Workers : iPc[w] = "load" => w \in iOnDisk

(* ------------------------------------------------------------------------ *)
(* Claims about the compression gate, checked under SpecPrepare             *)
(* ------------------------------------------------------------------------ *)

C21_TempFileRemovedAfterCall ==
    /\ Leaked \notin (tempFiles \cup tempOnDisk)
    /\ \A t \in Threads : pc[t] # "upload" => t \notin (tempFiles \cup tempOnDisk)

\* the content of the watched files: shop/orders.csv begins with the lines
\* 'a,b,c' and '1,2', and the table of that name has the columns a, b
HeaderDiffers(p) == p \in {"shop/orders.csv"}

\* a CSV analysis finds no dialect in a file whose first two lines have
\* different field counts
NoDialect(p) == p \in {"shop/orders.csv"}

\* C26: a modification event for a file whose header differs from the
\* table's columns never gets to the load_table call.
C26_HeaderMismatchStopsLoad ==
    \A t \in Threads :
        ~(pc[t] = "upload" /\ Mode(t) = "modified" /\ HeaderDiffers(ev[t].path))

\* C27: an event for a file in which no dialect or header is detected never
\* gets to the create_table or load_table call.
C27_UnreadableCsvStopsUpload ==
    \A t \in Threads :
        NoDialect(ev[t].path) => pc[t] # "upload"

\* C28: an event whose file is not ready ends without a gateway call: when
\* the readiness check fails no gateway operation has been invoked for the
\* event.
C28_NotReadyMeansNoGatewayCall ==
    [][\A t \in Threads :
          (pc[t] = "ready" /\ result'[t] = "not_ready") => calls[t] = <<>>]_vars

(* ------------------------------------------------------------------------ *)
(* Claims about StreamingHandler, checked under SpecStreaming               *)
(* ------------------------------------------------------------------------ *)

Ceil(n, d) == (n + d - 1) \div d

\* the lines of all POSTs of the invocation, in order
RECURSIVE PostedLines(_)
PostedLines(posts) ==
    IF posts = <<>> THEN <<>>
    ELSE Head(posts).lines \o PostedLines(Tail(posts))

\* C22: a handle_modified with an endpoint and no failing POST, on a file of L
\* lines with batch size B, returns after ceil(L/B) POSTs in file order; every
\* POST but the last has B lines, the last has 1..B, and together they hold
\* exactly the lines of the file, first to last.
C22_BatchesCoverTheFile ==
    (/\ sPc = "return"
     /\ sMethod = "handle_modified"
     /\ sOptions.has_endpoint
     /\ \A k \in 1 .. Len(sPosts) : sPosts[k].ok)
        => LET B == IF sBatchSize = 0 THEN sOptions.batch_size ELSE sBatchSize IN
           /\ sExc = "none"
           /\ Len(sPosts) = Ceil(sLen, B)
           /\ \A k \in 1 .. Len(sPosts) - 1 : Len(sPosts[k].lines) = B
           /\ sPosts # <<>> => Len(sPosts[Len(sPosts)].lines) \in 1 .. B
           /\ PostedLines(sPosts) = [k \in 1 .. sLen |-> Chomp(StreamLine(k))]

\* C23: a POST that fails is the last POST of its invocation, and the
\* invocation ends raising the failure.
C23_FailFast ==
    \A k \in 1 .. Len(sPosts) :
        ~sPosts[k].ok =>
            /\ k = Len(sPosts)
            /\ sPc \in {"except", "return", "idle"}
            /\ sExc = "RequestException"

\* C23 witness: batch size 1 and a file of three lines; the first POST went
\* through, the second failed, the third line was never sent and the
\* invocation raises.
C23_Witness ==
    /\ sPc = "return"
    /\ sLen = 3
    /\ sBatchSize = 1
    /\ Len(sPosts) = 2
    /\ sPosts[1].ok
    /\ ~sPosts[2].ok
    /\ sExc = "RequestException"

\* what reports a configuration problem: the raise statement of _get_endpoint
ConfigurationProblems == {"ConfigurationError", "NameError"}

\* C24: no invocation of a handler raises for a configuration problem: what
\* the options of a mapping lack is never reported while events are handled.
C24_NoConfigurationProblemMidRun == sExc \notin ConfigurationProblems

(* ------------------------------------------------------------------------ *)
(* Claims about start-up, checked under SpecStartup                         *)
(* ------------------------------------------------------------------------ *)

\* file_path, bucket_id and table_id are non-empty strings and sync_mode is
\* one of the three modes
ValidMapping(m) ==
    /\ m.file_path = "text"
    /\ m.bucket_id = "text"
    /\ m.table_id = "text"
    /\ m.sync_mode \in ValidSyncModes

\* C25: with a mapping that has an invalid sync_mode or lacks a required
\* field, start-up never reaches watching and no event is handled; start-up
\* ends with ConfigurationError.
C25_InvalidMappingNeverWatches ==
    ~ValidMapping(uConfig) =>
        /\ uPc # "watching"
        /\ uEvents = 0
        /\ uPc = "failed" => uError = "ConfigurationError"

(* ------------------------------------------------------------------------ *)
(* Claims about the observer, checked under SpecObserverLive                *)
(* ------------------------------------------------------------------------ *)

InQueue(e) == \E k \in 1 .. Len(oQueue) : oQueue[k] = e

\* C29: an event that was detected while the watcher runs gets its pipeline
\* run to the end (unless stop() is called first), also while the pipeline of
\* another event is blocked in a remote call that never returns.
C29_QueuedEventIsHandled ==
    \A e \in 1 .. MaxObserved :
        (InQueue(e) /\ oStop = "running") ~> (e \in oHandled \/ oStop # "running")

\* C30: stop() returns, also when a pipeline in flight never finishes.
C30_StopReturns == (oStop = "joining") ~> (oStop = "stopped")

(* ------------------------------------------------------------------------ *)
(* Claims about Config, checked under SpecConfig                            *)
(* ------------------------------------------------------------------------ *)

\* C31: get_mapping_for_file(path) returns the first mapping, in the order
\* of the configuration, that is enabled and whose file_path is the very
\* string path (disabled mappings and other spellings of the same file are
\* passed over), and None when there is none.
C31_FirstEnabledExactMatch ==
    cPath # "none" =>
        LET hits == {k \in 1 .. Len(cMappings) :
                        /\ cMappings[k].enabled # "false"
                        /\ cMappings[k].file_path = cPath}
        IN  IF hits = {} THEN cResult = 0
            ELSE /\ cResult \in hits
                 /\ \A k \in hits : cResult <= k

\* a disabled mapping of the path comes first, the enabled one of the same
\* path second, and the second is returned
C31_Witness ==
    /\ Len(cMappings) = 2
    /\ cPath = "data/a.csv"
    /\ cMappings[1].file_path = cPath /\ cMappings[1].enabled = "false"
    /\ cMappings[2].file_path = cPath /\ cMappings[2].enabled = "true"
    /\ cResult = 2

(* ------------------------------------------------------------------------ *)
(* Further claims about StorageEventHandler, checked under Spec             *)
(* ------------------------------------------------------------------------ *)

\* the positions of the gateway calls of operation op that the invocation of
\* thread t has made
CallsOf(t, op) == {k \in 1 .. Len(calls[t]) : calls[t][k] = op}

\* C32: when table_exists answered that the table of a modified file is
\* missing, the handling of that event does not end before create_table was
\* called, once, for it.
C32_MissingTableIsCreated ==
    [][\A t \in Threads :
          (pc[t] = "nested_enter" /\ pc'[t] \in {"finally", "return", "idle"})
              => Cardinality(CallsOf(t, "create_table")) = 1]_vars

(* ------------------------------------------------------------------------ *)
(* Further claims about FileHandler and sync_file, checked under SpecDaemon *)
(* ------------------------------------------------------------------------ *)

\* the sync_file calls that the event being handled has triggered so far
SyncFileCalls == {d \in dSyncs : d.what = "sync_file" /\ d.outcome = "called"}

\* C33: one modification event triggers at most one sync_file call (none
\* when it is debounced, exactly one when it is accepted).
C33_AtMostOneSyncPerEvent == Cardinality(SyncFileCalls) <= 1

\* C34: the create_table or load_table call that sync_file makes for a file
\* that is there is a remote write: the call reaches the store, which
\* answers or fails.
C34_WriteReachesTheStore ==
    \A d \in dSyncs :
        d.what \in {"create_table", "load_table"}
            => d.outcome \in {"ok", "StorageError"}

(* ------------------------------------------------------------------------ *)
(* A further claim about IncrementalHandler, checked under SpecIncremental  *)
(* ------------------------------------------------------------------------ *)

\* C35: no appended line is sent twice and none is skipped: when the
\* load_table call of a handle_modified that found a watermark (the table was
\* created from the file before) has succeeded, the watermark stands at
\* the last line of the payload, so that the next payload begins with the
\* line after it.
C35_WatermarkAtEndOfPayload ==
    \A w \in Workers :
        (iMethod[w] = "handle_modified" /\ iEntry[w] > 0
            /\ iCall[w].op = "load_table" /\ iCall[w].outcome = "ok")
                => iWatermark[w] = iCall[w].to

(* ------------------------------------------------------------------------ *)
(* Further claims about StreamingHandler, checked under SpecStreaming       *)
(* ------------------------------------------------------------------------ *)

\* C36: whatever calls came before, failed ones included, no POST of an
\* invocation carries more than batch_size lines.
C36_BatchWithinBatchSize ==
    \A k \in 1 .. Len(sPosts) : Len(sPosts[k].lines) <= sBatchSize

\* C37: a handle_modified for a path with a streaming endpoint, for which
\* handle_created never ran (no batch size is stored), raises nothing unless
\* a POST fails.
C37_ModifiedWithoutCreatedStreams ==
    (/\ sPc = "return"
     /\ sMethod = "handle_modified"
     /\ sOptions.has_endpoint
     /\ sBatchSize = 0
     /\ \A k \in 1 .. Len(sPosts) : sPosts[k].ok)
        => sExc = "none"

(* ------------------------------------------------------------------------ *)
(* Further claims about the compression gate, checked under SpecPrepare     *)
(* ------------------------------------------------------------------------ *)

\* C38: when compressing a file over the threshold has failed, the event goes
\* on: the failure is logged, nothing is registered in _temp_files, and
\* create_table / load_table is called with the original path.
C38_CompressFailureUploadsOriginal ==
    pLocals.gzip = "failed" =>
        /\ pLocals.seen > pThreshold
        /\ pLocals.logged
        /\ ~pLocals.registered
        /\ pLocals.upload_path = "original"
        /\ pPc \in {"call", "done"}
        /\ pPc = "done" =>
              /\ pCalls # <<>>
              /\ pCalls[Len(pCalls)].gzip = "failed"
              /\ pCalls[Len(pCalls)].file_path = "original"

\* C38 witness: the gzip copy of a file over the threshold failed and
\* load_table was called with the original path.
C38_Witness ==
    /\ pPc = "done"
    /\ pLocals.gzip = "failed"
    /\ pLocals.stat > pThreshold
    /\ pCalls # <<>>
    /\ pCalls[Len(pCalls)].op = "load_table"
    /\ pCalls[Len(pCalls)].file_path = "original"

\* C39: the gateway is told that the file is compressed exactly when the file
\* it is handed is the gzip temp copy.
C39_IsCompressedFollowsUploadPath ==
    \A k \in 1 .. Len(pCalls) :
        pCalls[k].is_compressed <=> pCalls[k].file_path = "temp"

(* ------------------------------------------------------------------------ *)
(* A further claim about with_retries, checked under SpecRetry              *)
(* ------------------------------------------------------------------------ *)

\* C40: whatever max_attempts is, 0 included, the wrapper ends only after it
\* has invoked the operation at least once, and what it returns or raises is
\* the result or the exception of one of those invocations.
C40_OutcomeComesFromAnAttempt ==
    rOutcome.kind \in {"returned", "raised"}
        => /\ rCalls >= 1
           /\ rOutcome.value \in 1 .. rCalls

====
